---- MODULE Spec2Model ----
(***************************************************************************)
(* Simulation core of the snake game: grid occupancy, snake movement, the  *)
(* food manager, the power-ups manager and the speed progression system.   *)
(* Cells are pairs <<x, y>>.  Times and speeds are fixed-point integers:   *)
(* times in tenths of a second, speeds in hundredths of a cell per second, *)
(* multipliers in hundredths.                                              *)
(***************************************************************************)
EXTENDS Integers, Sequences, FiniteSets, TLC

(***************************************************************************)
(* Bounds of the model.                                                    *)
(***************************************************************************)
GridW == 4
GridH == 3
MaxSnakeLen == 6
MaxHistory == 2
MaxTime == 240
MaxWall == 9
max_food == 2
MaxFoodList == 3
MaxSpawnTimer == 40
MaxOps == 4
MaxFrames == 3
MaxLevel == 15
MaxScoreSteps == 20
MaxDraws == 10
MaxFree == 1
MaxFoodEaten == 10
MaxDetectorBody == 3
MaxDetectorFoods == 2

(***************************************************************************)
(* Program constants.                                                      *)
(***************************************************************************)
INITIAL_LENGTH == 3

VARIABLES
    body,            \* Snake.body, head first
    direction,       \* Snake.direction
    next_direction,  \* Snake.next_direction
    growing,         \* Snake.growing
    occupied,        \* Grid._occupied_positions
    active_power_ups,   \* PowerUpsManager.active_power_ups: kind -> index of its
                        \* ActivePowerUp object in power_up_history, 0 when absent
    power_up_history,   \* PowerUpsManager.power_up_history: the ActivePowerUp objects
    current_time,       \* PowerUpsManager.current_time
    effect_multipliers, \* PowerUpsManager.effect_multipliers
    speed_config,       \* SpeedProgressionSystem.config
    speed_state,        \* SpeedProgressionSystem.speed_state
    last_seen,          \* last_food_eaten, last_level, last_score
    speed_multiplier,   \* SpeedProgressionSystem.speed_multiplier
    speed_override,     \* SpeedProgressionSystem.speed_override, None when unset
    wall_time,          \* the reading of time.time(), in tenths of a second
    active_food,        \* EnhancedFoodManager.active_food
    food_timers,        \* food_spawn_timer, special_event_active,
                        \* special_event_timer, combo_timer
    food_combinations,  \* EnhancedFoodManager.food_combinations
    game_state,         \* GameState: status, score, level, food_eaten,
                        \* high_score, game_time, difficulty
    logic_timers,       \* GameLogic.update_timer, last_special_food_time
    op_count,           \* the number of operations the game has been put through
    ret              \* the last call: its name, argument and return value

snakeVars == <<body, direction, next_direction, growing>>
powerVars == <<active_power_ups, power_up_history, current_time, effect_multipliers>>
speedVars == <<speed_config, speed_state, last_seen, speed_multiplier, speed_override, wall_time>>
foodVars == <<active_food, food_timers, food_combinations>>
gameVars == <<game_state, logic_timers>>
vars == <<body, direction, next_direction, growing, occupied,
          active_power_ups, power_up_history, current_time, effect_multipliers,
          speed_config, speed_state, last_seen, speed_multiplier, speed_override,
          wall_time, active_food, food_timers, food_combinations, game_state,
          logic_timers, op_count, ret>>

(***************************************************************************)
(* grid.py                                                                 *)
(***************************************************************************)
Directions == {"UP", "DOWN", "LEFT", "RIGHT"}

DirVec(d) ==
    CASE d = "UP"    -> <<0, -1>>
      [] d = "DOWN"  -> <<0, 1>>
      [] d = "LEFT"  -> <<-1, 0>>
      [] d = "RIGHT" -> <<1, 0>>

get_opposite(d) ==
    CASE d = "UP"    -> "DOWN"
      [] d = "DOWN"  -> "UP"
      [] d = "LEFT"  -> "RIGHT"
      [] d = "RIGHT" -> "LEFT"

PosAdd(p, q) == <<p[1] + q[1], p[2] + q[2]>>

Cells == (0 .. GridW - 1) \X (0 .. GridH - 1)

is_valid_position(p) == 0 <= p[1] /\ p[1] < GridW /\ 0 <= p[2] /\ p[2] < GridH

is_position_occupied(occ, p) == p \in occ

wrap_position_swapped(p) == <<p[1] % GridH, p[2] % GridW>>

wrap_position(p) == <<p[1] % GridW, p[2] % GridH>>

get_grid_center == <<GridW \div 2, GridH \div 2>>

\* the occupancy set after occupy_position(p): a no-op when p is occupied
occupy_position(occ, p) == IF is_position_occupied(occ, p) THEN occ ELSE occ \cup {p}

free_position_keeps(occ, p) == occ

\* the occupancy set after free_position(p): a no-op when p is not occupied
free_position(occ, p) == IF ~is_position_occupied(occ, p) THEN occ ELSE occ \ {p}

(***************************************************************************)
(* snake.py                                                                *)
(***************************************************************************)
Range(s) == {s[i] : i \in 1 .. Len(s)}

\* Snake.__init__ / Snake.reset: the segments start.x - i, i = 0 .. length-1
InitialBody(start) == [i \in 1 .. INITIAL_LENGTH |-> <<start[1] - (i - 1), start[2]>>]

get_head(b) == b[1]

get_tail(b) == b[Len(b)]

\* the head cell Snake.move computes, after the boundary handling
NewHead(b, d, wrap) ==
    LET raw == PosAdd(get_head(b), DirVec(d))
    IN  IF wrap THEN wrap_position(raw) ELSE raw

SelfCollisionNever(b, h) == FALSE

\* snake.py line 87: new_head in self.body
SelfCollision(b, h) == h \in Range(b)

MoveOutcomeWallFirst(b, occ, d, wrap) ==
    LET h == NewHead(b, d, wrap)
    IN  IF ~is_valid_position(NewHead(b, d, FALSE)) THEN "wall"
        ELSE IF SelfCollision(b, h) THEN "self"
        ELSE IF is_position_occupied(occ, h) THEN "obstacle"
        ELSE "ok"

\* the checks of Snake.move in their order; "ok" when the move goes ahead
MoveOutcome(b, occ, d, wrap) ==
    LET h == NewHead(b, d, wrap)
    IN  IF ~wrap /\ ~is_valid_position(h) THEN "wall"
        ELSE IF SelfCollision(b, h) THEN "self"
        ELSE IF is_position_occupied(occ, h) THEN "obstacle"
        ELSE "ok"

IsReverseOfQueued(d, cur) == get_opposite(d) = next_direction

IsReverseHorizontalOnly(d, cur) == cur \in {"LEFT", "RIGHT"} /\ get_opposite(d) = cur

IsReverseOrSame(d, cur) == get_opposite(d) = cur \/ d = cur

\* snake.py line 57: the guard of change_direction
IsReverse(d, cur) == get_opposite(d) = cur

change_direction(d) ==
    /\ IF IsReverse(d, direction)
       THEN /\ next_direction' = next_direction
            /\ ret' = [op |-> "change_direction", arg |-> d, result |-> FALSE]
       ELSE /\ next_direction' = d
            /\ ret' = [op |-> "change_direction", arg |-> d, result |-> TRUE]
    /\ UNCHANGED <<body, direction, growing, occupied, powerVars, speedVars, foodVars, gameVars>>

grow ==
    /\ Len(body) < MaxSnakeLen
    /\ growing' = TRUE
    /\ ret' = [op |-> "grow", arg |-> "none", result |-> TRUE]
    /\ UNCHANGED <<body, direction, next_direction, occupied, powerVars, speedVars, foodVars, gameVars>>

move(wrap) ==
    LET d   == next_direction
        h   == NewHead(body, d, wrap)
        out == MoveOutcome(body, occupied, d, wrap)
    IN  /\ direction' = d
        /\ next_direction' = next_direction
        /\ IF out # "ok"
           THEN /\ UNCHANGED <<body, growing, occupied>>
                /\ ret' = [op |-> "move", arg |-> wrap, result |-> FALSE]
           ELSE /\ IF ~growing
                   THEN /\ body' = <<h>> \o SubSeq(body, 1, Len(body) - 1)
                        /\ occupied' = occupy_position(free_position(occupied, get_tail(body)), h)
                        /\ growing' = growing
                   ELSE /\ body' = <<h>> \o body
                        /\ occupied' = occupy_position(occupied, h)
                        /\ growing' = FALSE
                /\ ret' = [op |-> "move", arg |-> wrap, result |-> TRUE]
        /\ UNCHANGED <<powerVars, speedVars, foodVars, gameVars>>

(***************************************************************************)
(* collision.py.  A snake is handed over as its body, a list of foods as   *)
(* a sequence of Food records, the obstacles as the set of their cells;    *)
(* the result None is the string "None".                                   *)
(***************************************************************************)
get_collision_type_self_first(b, food_list, obstacles) ==
    IF get_head(b) \in {b[i] : i \in 2 .. Len(b)} THEN "self"
    ELSE IF ~is_valid_position(get_head(b)) THEN "wall"
    ELSE IF get_head(b) \in obstacles THEN "obstacle"
    ELSE IF \E i \in 1 .. Len(food_list) :
                ~food_list[i].collected /\ get_head(b) = food_list[i].position
         THEN "food"
    ELSE "None"

\* CollisionDetector.get_collision_type, with the four checks it calls
get_collision_type(b, food_list, obstacles) ==
    LET head == get_head(b)
        check_snake_wall_collision == ~is_valid_position(head)
        check_snake_self_collision == head \in {b[i] : i \in 2 .. Len(b)}
        check_snake_obstacle_collision == head \in obstacles
        check_snake_food_collision(food) ==
            IF food.collected THEN FALSE ELSE head = food.position
    IN  IF check_snake_wall_collision THEN "wall"
        ELSE IF check_snake_self_collision THEN "self"
        ELSE IF check_snake_obstacle_collision THEN "obstacle"
        ELSE IF \E i \in 1 .. Len(food_list) : check_snake_food_collision(food_list[i])
             THEN "food"
        ELSE "None"

\* CollisionDetector.is_position_safe_for_snake, on the detector's grid
is_position_safe_for_snake(position, b, occ) ==
    IF ~is_valid_position(position) THEN FALSE
    ELSE IF position \in Range(SubSeq(b, 1, Len(b) - 1)) THEN FALSE
    ELSE IF is_position_occupied(occ, position) THEN FALSE
    ELSE TRUE

(***************************************************************************)
(* power_ups.py                                                            *)
(***************************************************************************)
PowerUpTypes ==
    <<"SPEED_BOOST", "INVINCIBILITY", "SCORE_MULTIPLIER", "GROWTH_BOOST",
      "SHIELD", "DOUBLE_POINTS", "SLOW_MOTION", "MAGNET">>

PowerUpTypeSet == Range(PowerUpTypes)

\* PowerUpsManager.power_up_effects: duration and cooldown in tenths of a
\* second, magnitude in hundredths
power_up_effects(k) ==
    CASE k = "SPEED_BOOST"      -> [duration |-> 80,  magnitude |-> 150, cooldown |-> 150]
      [] k = "INVINCIBILITY"    -> [duration |-> 60,  magnitude |-> 100, cooldown |-> 200]
      [] k = "SCORE_MULTIPLIER" -> [duration |-> 100, magnitude |-> 200, cooldown |-> 250]
      [] k = "GROWTH_BOOST"     -> [duration |-> 0,   magnitude |-> 300, cooldown |-> 300]
      [] k = "SHIELD"           -> [duration |-> 50,  magnitude |-> 100, cooldown |-> 180]
      [] k = "DOUBLE_POINTS"    -> [duration |-> 120, magnitude |-> 200, cooldown |-> 300]
      [] k = "SLOW_MOTION"      -> [duration |-> 70,  magnitude |-> 50,  cooldown |-> 200]
      [] k = "MAGNET"           -> [duration |-> 90,  magnitude |-> 100, cooldown |-> 220]

EndTimeFromCooldown(k, now) == now + power_up_effects(k).cooldown

\* power_ups.py line 257: end_time = current_time + effect.duration
EndTime(k, now) == now + power_up_effects(k).duration

\* ActivePowerUp.__init__ and __post_init__
NewActivePowerUp(k, now) ==
    [power_up_type     |-> k,
     start_time        |-> now,
     end_time          |-> EndTime(k, now),
     state             |-> "active",
     cooldown_end_time |-> EndTime(k, now) + power_up_effects(k).cooldown]

\* ActivePowerUp.update: the state it leaves the object in
UpdatedState(e, t) ==
    IF e.state = "active"
    THEN IF t >= e.end_time THEN "expired" ELSE "active"
    ELSE IF e.state = "expired"
         THEN IF t >= e.cooldown_end_time THEN "inactive" ELSE "cooldown"
         ELSE e.state

UpdateReturnsWhileCooling(e, t) == UpdatedState(e, t) \in {"active", "cooldown"}

\* ActivePowerUp.update: its return value
UpdateReturns(e, t) == e.state = "active" /\ t < e.end_time

is_active(hist, reg, k) == reg[k] # 0 /\ hist[reg[k]].state = "active"

MultiplyAdditive(acc, mag) == acc + mag - 100

\* power_ups.py lines 325-331: multiplier *= magnitude
Multiply(acc, mag) == (acc * mag) \div 100

\* the factor one kind contributes to the named multiplier
\* (the if/elif chain of _update_effect_multipliers)
Contribution(name, k) ==
    IF name = "speed" /\ k \in {"SPEED_BOOST", "SLOW_MOTION"} THEN TRUE
    ELSE IF name = "score" /\ k \in {"SCORE_MULTIPLIER", "DOUBLE_POINTS"} THEN TRUE
    ELSE FALSE

RECURSIVE Accumulate(_, _, _, _)
Accumulate(name, hist, reg, i) ==
    IF i = 0 THEN 100
    ELSE LET acc == Accumulate(name, hist, reg, i - 1)
             k   == PowerUpTypes[i]
         IN  IF is_active(hist, reg, k) /\ Contribution(name, k)
             THEN Multiply(acc, power_up_effects(k).magnitude)
             ELSE acc

\* PowerUpsManager._update_effect_multipliers
update_effect_multipliers(hist, reg) ==
    [speed  |-> Accumulate("speed", hist, reg, Len(PowerUpTypes)),
     score  |-> Accumulate("score", hist, reg, Len(PowerUpTypes)),
     growth |-> 100]

\* PowerUpsManager.get_power_up_status
get_power_up_status(k) ==
    IF active_power_ups[k] # 0 THEN power_up_history[active_power_ups[k]].state
    ELSE "inactive"

\* PowerUpsManager.get_active_power_ups, as the kinds of the objects returned
get_active_power_ups == {k \in PowerUpTypeSet : is_active(power_up_history, active_power_ups, k)}

activate_power_up(k, now) ==
    IF active_power_ups[k] # 0 /\ power_up_history[active_power_ups[k]].state = "cooldown"
    THEN /\ ret' = [op |-> "activate_power_up", arg |-> <<k, now>>, result |-> FALSE]
         /\ UNCHANGED powerVars
    ELSE LET hist == Append(power_up_history, NewActivePowerUp(k, now))
             reg  == [active_power_ups EXCEPT ![k] = Len(hist)]
         IN  /\ power_up_history' = hist
             /\ active_power_ups' = reg
             /\ effect_multipliers' = update_effect_multipliers(hist, reg)
             /\ current_time' = current_time
             /\ ret' = [op |-> "activate_power_up", arg |-> <<k, now>>, result |-> TRUE]

deactivate_power_up(k) ==
    IF is_active(power_up_history, active_power_ups, k)
    THEN LET hist == [power_up_history EXCEPT ![active_power_ups[k]].state = "expired"]
         IN  /\ power_up_history' = hist
             /\ effect_multipliers' = update_effect_multipliers(hist, active_power_ups)
             /\ UNCHANGED <<active_power_ups, current_time>>
             /\ ret' = [op |-> "deactivate_power_up", arg |-> k, result |-> TRUE]
    ELSE /\ UNCHANGED powerVars
         /\ ret' = [op |-> "deactivate_power_up", arg |-> k, result |-> FALSE]

\* what PowerUpsManager.update does to the manager
UpdatedPowerUps(dt) ==
    LET t       == current_time + dt
        InReg(i) == \E k \in PowerUpTypeSet : active_power_ups[k] = i
        hist    == [i \in 1 .. Len(power_up_history) |->
                       IF InReg(i)
                       THEN [power_up_history[i] EXCEPT
                                !.state = UpdatedState(power_up_history[i], t)]
                       ELSE power_up_history[i]]
        reg     == [k \in PowerUpTypeSet |->
                       IF active_power_ups[k] # 0
                          /\ UpdateReturns(power_up_history[active_power_ups[k]], t)
                       THEN active_power_ups[k]
                       ELSE 0]
    IN  /\ current_time' = t
        /\ power_up_history' = hist
        /\ active_power_ups' = reg
        /\ effect_multipliers' = update_effect_multipliers(hist, reg)

\* PowerUpsManager.update
power_ups_update(dt) ==
    /\ UpdatedPowerUps(dt)
    /\ ret' = [op |-> "update", arg |-> dt, result |-> TRUE]

\* what clear_all_power_ups does to the manager
ClearedPowerUps ==
    /\ active_power_ups' = [k \in PowerUpTypeSet |-> 0]
    /\ power_up_history' = <<>>
    /\ effect_multipliers' = update_effect_multipliers(<<>>, [k \in PowerUpTypeSet |-> 0])
    /\ current_time' = current_time

clear_all_power_ups ==
    /\ ClearedPowerUps
    /\ ret' = [op |-> "clear_all_power_ups", arg |-> "none", result |-> TRUE]

\* PowerUpsManager.__init__
PowerUpsNew ==
    /\ active_power_ups = [k \in PowerUpTypeSet |-> 0]
    /\ power_up_history = <<>>
    /\ current_time = 0
    /\ effect_multipliers = [speed |-> 100, score |-> 100, growth |-> 100]

\* Snake.__init__ at the grid centre
SnakeNew ==
    /\ body = InitialBody(get_grid_center)
    /\ direction = "RIGHT"
    /\ next_direction = "RIGHT"
    /\ growing = FALSE

(***************************************************************************)
(* speed_system.py.  Speeds are in hundredths of a cell per second,        *)
(* multipliers and easing factors in hundredths, the factors of the        *)
(* exponential progression in ten-thousandths.  The statistics the system  *)
(* only writes (speed_history, average_speed, max_speed_reached,           *)
(* speed_change_count, performance_timer) are left out.                    *)
(***************************************************************************)
MIN_SPEED == 500
LEVEL_MULTIPLIER == 110
FOOD_EATEN_MULTIPLIER == 5
TRANSITION_DURATION == 5
SPEED_EPSILON == 10

Max(a, b) == IF a >= b THEN a ELSE b

Min(a, b) == IF a <= b THEN a ELSE b

\* math.pow(base, n) for a base in ten-thousandths, in ten-thousandths
RECURSIVE PowFix(_, _)
PowFix(base, n) == IF n <= 0 THEN 10000 ELSE (PowFix(base, n - 1) * base) \div 10000

\* the fraction bits of math.log(x, 2) for 100 <= x < 200 (hundredths)
RECURSIVE Log2Frac(_, _)
Log2Frac(x, bits) ==
    IF bits = 0 THEN 0
    ELSE LET sq == (x * x) \div 100
         IN  IF sq >= 200
             THEN 64 + Log2Frac(sq \div 2, bits - 1) \div 2
             ELSE Log2Frac(sq, bits - 1) \div 2

\* math.log(x, 2) for x >= 100 (hundredths), in hundredths
RECURSIVE Log2Fix(_)
Log2Fix(x) ==
    IF x >= 200 THEN 100 + Log2Fix(x \div 2)
    ELSE (Log2Frac(x, 7) * 100) \div 128

calculate_linear_speed(cfg, food, level) ==
    cfg.initial_speed + food * cfg.base_increase + (level - 1) * LEVEL_MULTIPLIER

calculate_exponential_speed(cfg, food, level) ==
    LET food_factor  == PowFix(10000 + FOOD_EATEN_MULTIPLIER * 100, food)
        level_factor == PowFix(LEVEL_MULTIPLIER * 100, level - 1)
    IN  (((cfg.initial_speed * food_factor) \div 10000) * level_factor) \div 10000

calculate_logarithmic_speed(cfg, food, level) ==
    cfg.initial_speed + Log2Fix(100 + food * cfg.base_increase)
                      + Log2Fix(100 + (level - 1) * LEVEL_MULTIPLIER)

calculate_stepped_speed(cfg, food, level) ==
    cfg.initial_speed + ((food \div 5) + (level - 1)) * cfg.base_increase

\* an optional number: None, or Some(v)
None == [set |-> FALSE, value |-> 0]

Some(v) == [set |-> TRUE, value |-> v]

\* _calculate_custom_speed: custom is the value the configured function
\* returns, None when no function is configured
calculate_custom_speed(cfg, food, level, custom) ==
    IF custom.set THEN custom.value ELSE calculate_exponential_speed(cfg, food, level)

calculate_base_speed(cfg, food, level, custom) ==
    CASE cfg.progression_type = "LINEAR"      -> calculate_linear_speed(cfg, food, level)
      [] cfg.progression_type = "EXPONENTIAL" -> calculate_exponential_speed(cfg, food, level)
      [] cfg.progression_type = "LOGARITHMIC" -> calculate_logarithmic_speed(cfg, food, level)
      [] cfg.progression_type = "STEPPED"     -> calculate_stepped_speed(cfg, food, level)
      [] cfg.progression_type = "CUSTOM"      -> calculate_custom_speed(cfg, food, level, custom)

\* SpeedConfig.difficulty_multipliers.get(difficulty.lower(), 1.0)
difficulty_multiplier(difficulty) ==
    CASE difficulty = "easy"   -> 80
      [] difficulty = "medium" -> 100
      [] difficulty = "hard"   -> 130
      [] OTHER                 -> 100

ClampNone(cfg, v) == v

\* speed_system.py line 174: max(min_speed, min(final_speed, max_speed))
Clamp(cfg, v) == Max(cfg.min_speed, Min(v, cfg.max_speed))

\* the final speed _update_target_speed computes
FinalSpeed(cfg, mult, override, food, level, difficulty, custom) ==
    LET base_speed     == calculate_base_speed(cfg, food, level, custom)
        adjusted_speed == (base_speed * difficulty_multiplier(difficulty)) \div 100
        final_speed    == IF override.set THEN override.value
                          ELSE (adjusted_speed * mult) \div 100
    IN  Clamp(cfg, final_speed)

should_update_speed(food, level, score) == <<food, level, score>> # last_seen

\* _calculate_transition_factor, for a progress in hundredths
calculate_transition_factor(cfg, progress) ==
    CASE cfg.transition_type = "INSTANT"  -> 100
      [] cfg.transition_type = "SMOOTH"   -> progress
      [] cfg.transition_type = "EASE_IN"  -> (progress * progress) \div 100
      [] cfg.transition_type = "EASE_OUT" ->
            100 - ((100 - progress) * (100 - progress)) \div 100
      [] cfg.transition_type = "EASE_IN_OUT" ->
            IF progress < 50
            THEN (2 * progress * progress) \div 100
            ELSE 100 - (2 * (100 - progress) * (100 - progress)) \div 100

\* _start_speed_transition
start_speed_transition(st, target, now) ==
    [st EXCEPT !.previous_speed = st.current_speed,
               !.target_speed = target,
               !.transition_start_time = now,
               !.transition_progress = 0,
               !.is_transitioning = TRUE]

\* _update_speed_transitions, reading time.time() as now
update_speed_transitions(cfg, st, now) ==
    IF ~st.is_transitioning THEN st
    ELSE LET progress == ((now - st.transition_start_time) * 100) \div TRANSITION_DURATION
         IN  IF progress >= 100
             THEN [st EXCEPT !.current_speed = st.target_speed,
                             !.is_transitioning = FALSE,
                             !.transition_progress = 100]
             ELSE [st EXCEPT !.transition_progress = progress,
                             !.current_speed =
                                 st.previous_speed
                                 + ((st.target_speed - st.previous_speed)
                                    * calculate_transition_factor(cfg, progress)) \div 100]

\* _update_target_speed: the speed state it leaves
update_target_speed(cfg, st, mult, override, food, level, difficulty, custom, now) ==
    LET final_speed == FinalSpeed(cfg, mult, override, food, level, difficulty, custom)
    IN  IF \/ final_speed - st.current_speed > SPEED_EPSILON
           \/ st.current_speed - final_speed > SPEED_EPSILON
        THEN start_speed_transition(st, final_speed, now)
        ELSE st

\* what SpeedProgressionSystem.update does to the system; time.time() reads
\* now throughout the call
UpdatedSpeed(food, level, score, difficulty, custom, now) ==
    LET changed == should_update_speed(food, level, score)
        st1 == IF changed
               THEN update_target_speed(speed_config, speed_state, speed_multiplier,
                                        speed_override, food, level, difficulty, custom, now)
               ELSE speed_state
    IN  /\ speed_state' = update_speed_transitions(speed_config, st1, now)
        /\ last_seen' = IF changed THEN <<food, level, score>> ELSE last_seen
        /\ wall_time' = now
        /\ UNCHANGED <<speed_config, speed_multiplier, speed_override>>

\* SpeedProgressionSystem.update
speed_update(food, level, score, difficulty, custom, now) ==
    /\ UpdatedSpeed(food, level, score, difficulty, custom, now)
    /\ ret' = [op |-> "speed_update", arg |-> <<difficulty, custom>>,
               result |-> should_update_speed(food, level, score)]

set_speed_multiplier(m) ==
    /\ speed_multiplier' = Max(10, Min(m, 500))
    /\ UNCHANGED <<speed_config, speed_state, last_seen, speed_override, wall_time>>
    /\ ret' = [op |-> "set_speed_multiplier", arg |-> "none", result |-> TRUE]

set_speed_override(v) ==
    /\ speed_override' = v
    /\ UNCHANGED <<speed_config, speed_state, last_seen, speed_multiplier, wall_time>>
    /\ ret' = [op |-> "set_speed_override", arg |-> "none", result |-> TRUE]

\* the speed state of SpeedProgressionSystem.__init__ and reset_speed
InitialSpeedState(cfg) ==
    [current_speed         |-> cfg.initial_speed,
     target_speed          |-> cfg.initial_speed,
     previous_speed        |-> cfg.initial_speed,
     transition_start_time |-> 0,
     transition_progress   |-> 0,
     is_transitioning      |-> FALSE]

\* what reset_speed does to the speed system
ResetSpeed ==
    /\ speed_state' = [InitialSpeedState(speed_config) EXCEPT
                          !.transition_start_time = speed_state.transition_start_time]
    /\ last_seen' = <<0, 1, 0>>
    /\ speed_multiplier' = 100
    /\ speed_override' = None
    /\ UNCHANGED <<speed_config, wall_time>>

reset_speed ==
    /\ ResetSpeed
    /\ ret' = [op |-> "reset_speed", arg |-> "none", result |-> TRUE]

\* SpeedProgressionSystem.__init__ with the configuration cfg
SpeedSystemNew(cfg) ==
    /\ speed_config = cfg
    /\ speed_state = InitialSpeedState(cfg)
    /\ last_seen = <<0, 1, 0>>
    /\ speed_multiplier = 100
    /\ speed_override = None
    /\ wall_time = 0

\* the configuration of a GameLogic created with the default difficulty
DefaultSpeedConfig ==
    [initial_speed |-> 800, max_speed |-> 2500, min_speed |-> MIN_SPEED, base_increase |-> 50,
     progression_type |-> "EXPONENTIAL", transition_type |-> "SMOOTH"]

(***************************************************************************)
(* food.py.  Times are in tenths of a second, probabilities in             *)
(* thousandths, rarity boosts in tenths; random.random() is a numerator    *)
(* over RAND_DENOM.                                                        *)
(***************************************************************************)
FoodTypes ==
    <<"NORMAL", "BONUS", "SPEED_UP", "SPEED_DOWN", "DOUBLE_POINTS", "INVINCIBILITY",
      "GROWTH_BOOST", "MAGNET_FOOD", "SHIELD_FOOD", "TIME_FREEZE", "GHOST_MODE",
      "EXPLOSIVE_FOOD", "TELEPORT_FOOD", "RAINBOW_FOOD">>

\* Food.FOOD_TYPES: probability, rarity and spawn conditions of every kind
FOOD_TYPES(k) ==
    CASE k = "NORMAL"         -> [probability |-> 600, rarity |-> "COMMON",    min_score |-> 0,    min_level |-> 0]
      [] k = "BONUS"          -> [probability |-> 120, rarity |-> "UNCOMMON",  min_score |-> 50,   min_level |-> 0]
      [] k = "SPEED_UP"       -> [probability |-> 60,  rarity |-> "UNCOMMON",  min_score |-> 0,    min_level |-> 2]
      [] k = "SPEED_DOWN"     -> [probability |-> 40,  rarity |-> "UNCOMMON",  min_score |-> 0,    min_level |-> 3]
      [] k = "DOUBLE_POINTS"  -> [probability |-> 40,  rarity |-> "RARE",      min_score |-> 100,  min_level |-> 3]
      [] k = "INVINCIBILITY"  -> [probability |-> 30,  rarity |-> "RARE",      min_score |-> 150,  min_level |-> 5]
      [] k = "GROWTH_BOOST"   -> [probability |-> 30,  rarity |-> "RARE",      min_score |-> 0,    min_level |-> 4]
      [] k = "MAGNET_FOOD"    -> [probability |-> 25,  rarity |-> "EPIC",      min_score |-> 200,  min_level |-> 6]
      [] k = "SHIELD_FOOD"    -> [probability |-> 20,  rarity |-> "EPIC",      min_score |-> 300,  min_level |-> 7]
      [] k = "TIME_FREEZE"    -> [probability |-> 15,  rarity |-> "EPIC",      min_score |-> 400,  min_level |-> 8]
      [] k = "GHOST_MODE"     -> [probability |-> 15,  rarity |-> "EPIC",      min_score |-> 500,  min_level |-> 9]
      [] k = "EXPLOSIVE_FOOD" -> [probability |-> 10,  rarity |-> "LEGENDARY", min_score |-> 600,  min_level |-> 10]
      [] k = "TELEPORT_FOOD"  -> [probability |-> 10,  rarity |-> "LEGENDARY", min_score |-> 800,  min_level |-> 12]
      [] k = "RAINBOW_FOOD"   -> [probability |-> 5,   rarity |-> "LEGENDARY", min_score |-> 1000, min_level |-> 15]

\* EnhancedFoodManager.rarity_boosts
rarity_boosts(r) ==
    CASE r = "COMMON"    -> 10
      [] r = "UNCOMMON"  -> 12
      [] r = "RARE"      -> 15
      [] r = "EPIC"      -> 20
      [] r = "LEGENDARY" -> 30

SPAWN_INTERVAL == 20

SPECIAL_EVENT_DURATION == 300

COMBO_THRESHOLD == 3

COMBO_TIMEOUT == 100

SPECIAL_EVENT_SPAWNS == 3

RAND_DENOM == 1000

\* the state of a food manager together with the grid it shares
FoodState(foods, occ, timers, combos) ==
    [active_food |-> foods, occupied |-> occ, timers |-> timers, combos |-> combos]

\* EnhancedFoodManager.__init__: the timers
InitialFoodTimers ==
    [food_spawn_timer |-> 0, special_event_active |-> FALSE,
     special_event_timer |-> 0, combo_timer |-> 0]

can_food_type_spawn_by_score(k, score, level) == score >= FOOD_TYPES(k).min_score

can_food_type_spawn(k, score, level) ==
    /\ score >= FOOD_TYPES(k).min_score
    /\ level >= FOOD_TYPES(k).min_level

\* the adjusted probability of a kind, zero for a kind that cannot spawn
AdjustedProbability(k, score, level) ==
    IF can_food_type_spawn(k, score, level)
    THEN FOOD_TYPES(k).probability * rarity_boosts(FOOD_TYPES(k).rarity)
    ELSE 0

RECURSIVE CumulativeProbability(_, _, _)
CumulativeProbability(i, score, level) ==
    IF i = 0 THEN 0
    ELSE CumulativeProbability(i - 1, score, level)
         + AdjustedProbability(FoodTypes[i], score, level)

\* _select_enhanced_food_type with random.random() = rand / RAND_DENOM
select_enhanced_food_type(score, level, rand) ==
    LET total == CumulativeProbability(Len(FoodTypes), score, level)
        hits  == {i \in 1 .. Len(FoodTypes) :
                     /\ can_food_type_spawn(FoodTypes[i], score, level)
                     /\ rand * total <= CumulativeProbability(i, score, level) * RAND_DENOM}
    IN  IF total = 0 \/ hits = {}
        THEN "NORMAL"
        ELSE FoodTypes[CHOOSE i \in hits : \A j \in hits : i <= j]

(***************************************************************************)
(* The same choice in the arithmetic of the code.  Python's float is the   *)
(* IEEE-754 double: a value is m * 2^e with a mantissa m of MANTISSA bits, *)
(* and every product, sum and quotient is rounded to the nearest such      *)
(* value, ties to the even mantissa.  A mantissa, and the exact result     *)
(* before rounding, is a natural number written in LIMBS digits of base    *)
(* LIMB_BASE, lowest digit first.  Float(op, x, y) is the double           *)
(*   "of":        of the integer x < LIMB_BASE^3,                          *)
(*   "below_one": next below 1.0, the greatest value of random.random(),   *)
(*   "mul", "add", "div": x * y, x + y, x / y,                             *)
(* for "leq" the truth of x <= y, and for "div_bits" the quotient bits of  *)
(* the long division that "div" rounds.                                    *)
(***************************************************************************)
RECURSIVE Float(_, _, _)
Float(op, x, y) ==
    LET MANTISSA  == 53
        LIMB_BITS == 15
        LIMB_BASE == 2 ^ LIMB_BITS
        LIMBS     == 8
        Digits(f) == SubSeq(f, 1, LIMBS)
        BigZero   == Digits([i \in 1 .. LIMBS |-> 0])
        BigOf(n)  ==
            Digits([i \in 1 .. LIMBS |->
                       IF i = 1 THEN n % LIMB_BASE
                       ELSE IF i = 2 THEN (n \div LIMB_BASE) % LIMB_BASE
                       ELSE IF i = 3 THEN n \div (LIMB_BASE * LIMB_BASE)
                       ELSE 0])
        \* a + b: digit i takes a carry when a lower digit overflows and
        \* every digit between is full
        BigAdd(a, b) ==
            Digits([i \in 1 .. LIMBS |->
                       (a[i] + b[i]
                        + (IF \E j \in 1 .. i - 1 :
                                  /\ a[j] + b[j] >= LIMB_BASE
                                  /\ \A k \in j + 1 .. i - 1 : a[k] + b[k] = LIMB_BASE - 1
                           THEN 1 ELSE 0)) % LIMB_BASE])
        BigLess(a, b) ==
            \E i \in 1 .. LIMBS : a[i] < b[i] /\ \A j \in i + 1 .. LIMBS : a[j] = b[j]
        \* a - b for a >= b: digit i lends when the digits below it are less
        BigSub(a, b) ==
            Digits([i \in 1 .. LIMBS |->
                       (a[i] - b[i] + LIMB_BASE
                        - (IF \E j \in 1 .. i - 1 :
                                  a[j] < b[j] /\ \A k \in j + 1 .. i - 1 : a[k] = b[k]
                           THEN 1 ELSE 0)) % LIMB_BASE])
        \* a * LIMB_BASE^k
        ShiftLimbs(a, k) == Digits([i \in 1 .. LIMBS |-> IF i > k THEN a[i - k] ELSE 0])
        \* a times the digit d
        MulSmall(a, d) ==
            BigAdd(Digits([i \in 1 .. LIMBS |-> (a[i] * d) % LIMB_BASE]),
                   ShiftLimbs(Digits([i \in 1 .. LIMBS |-> (a[i] * d) \div LIMB_BASE]), 1))
        \* a * 2^n
        ShiftLeft(a, n) == ShiftLimbs(MulSmall(a, 2 ^ (n % LIMB_BITS)), n \div LIMB_BITS)
        \* a \div 2^n
        ShiftRight(a, n) ==
            Digits([i \in 1 .. LIMBS |->
                       ((IF i + (n \div LIMB_BITS) <= LIMBS
                         THEN a[i + (n \div LIMB_BITS)] ELSE 0) \div 2 ^ (n % LIMB_BITS))
                       + ((IF i + 1 + (n \div LIMB_BITS) <= LIMBS
                           THEN a[i + 1 + (n \div LIMB_BITS)] ELSE 0) % 2 ^ (n % LIMB_BITS))
                         * 2 ^ (LIMB_BITS - (n % LIMB_BITS))])
        \* a * b for a mantissa b, which has four digits
        Part(a, b, j) == ShiftLimbs(MulSmall(a, b[j]), j - 1)
        BigMul(a, b) ==
            BigAdd(BigAdd(Part(a, b, 1), Part(a, b, 2)),
                   BigAdd(Part(a, b, 3), Part(a, b, 4)))
        \* the number of bits of a # 0 whose top digit is a[top]
        TopBits(a, top) ==
            LIMB_BITS * (top - 1)
            + (CHOOSE n \in 1 .. LIMB_BITS : 2 ^ (n - 1) <= a[top] /\ a[top] < 2 ^ n)
        \* the number of bits of a
        BitLen(a) ==
            IF a = BigZero THEN 0
            ELSE TopBits(a, CHOOSE i \in 1 .. LIMBS :
                                a[i] # 0 /\ \A j \in i + 1 .. LIMBS : a[j] = 0)
        FloatZero == [m |-> BigZero, e |-> 0]
        \* the double r * 2^e of a number r of MANTISSA bits, or one more
        Renormalised(r, e) ==
            IF BitLen(r) > MANTISSA
            THEN [m |-> ShiftRight(r, 1), e |-> e + 1]
            ELSE [m |-> r, e |-> e]
        \* keep * 2^e plus rest * 2^(e - s), rounded to keep or keep + 1
        RoundedUp(keep, rest, half, e, sticky) ==
            Renormalised(IF \/ BigLess(half, rest)
                            \/ rest = half /\ (sticky \/ keep[1] % 2 = 1)
                         THEN BigAdd(keep, BigOf(1)) ELSE keep,
                         e)
        \* n * 2^e with the last s bits of n cut off into rest
        Cut(n, e, sticky, s, keep) ==
            RoundedUp(keep, BigSub(n, ShiftLeft(keep, s)), ShiftLeft(BigOf(1), s - 1),
                      e + s, sticky)
        Rounded(n, e, sticky, len) ==
            IF len = 0 THEN FloatZero
            ELSE IF len <= MANTISSA
            THEN [m |-> ShiftLeft(n, MANTISSA - len), e |-> e - (MANTISSA - len)]
            ELSE Cut(n, e, sticky, len - MANTISSA, ShiftRight(n, len - MANTISSA))
        \* the double nearest to n * 2^e (plus a non-zero remainder below the
        \* last bit of n when sticky), ties to even
        FloatRound(n, e, sticky) == Rounded(n, e, sticky, BitLen(n))
        \* one more bit of the quotient s.q of s.r / y
        Bit(s, ge) ==
            [q |-> [MulSmall(s.q, 2) EXCEPT ![1] = @ + (IF ge THEN 1 ELSE 0)],
             r |-> IF ge THEN BigSub(s.r, y) ELSE s.r,
             k |-> s.k]
        NextBit(s) == Bit(s, ~BigLess(s.r, y))
        Doubled(s) == [q |-> s.q, r |-> MulSmall(s.r, 2), k |-> s.k - 1]
        MoreBit(s) == NextBit(Doubled(s))
        lo == IF x.e < y.e THEN x.e ELSE y.e
        \* the exact result n * 2^e of an operation, before rounding
        Exact(n, e, sticky) == [n |-> n, e |-> e, sticky |-> sticky]
        DivExact(qr) == Exact(qr.q, x.e - y.e - (MANTISSA + 2), qr.r # BigZero)
        Result(exact) == FloatRound(exact.n, exact.e, exact.sticky)
    IN  CASE op = "below_one" ->
                 [m |-> BigSub(ShiftLeft(BigOf(1), MANTISSA), BigOf(1)), e |-> 0 - MANTISSA]
          [] op = "leq" ->
                 IF x.m = BigZero THEN TRUE
                 ELSE IF y.m = BigZero THEN FALSE
                 ELSE ~BigLess(ShiftLeft(y.m, y.e - lo), ShiftLeft(x.m, x.e - lo))
          \* the quotient bits of x.r / y after x.k more bits, x.q being the
          \* bits so far, and the remainder; eight bits in a step when that
          \* many remain
          [] op = "div_bits" ->
                 CHOOSE qr \in {IF s.k = 0 THEN s ELSE Float("div_bits", Doubled(s), y) :
                                   s \in {IF x.k < 7 THEN NextBit(x)
                                          ELSE MoreBit(MoreBit(MoreBit(MoreBit(MoreBit(
                                                   MoreBit(MoreBit(NextBit(x))))))))}} : TRUE
          [] op = "add" /\ x.m = BigZero -> y
          [] op = "add" /\ y.m = BigZero -> x
          [] OTHER ->
                 Result(CASE op = "of" -> Exact(BigOf(x), 0, FALSE)
                          [] op = "mul" -> Exact(BigMul(x.m, y.m), x.e + y.e, FALSE)
                          [] op = "add" ->
                                 Exact(BigAdd(ShiftLeft(x.m, x.e - lo), ShiftLeft(y.m, y.e - lo)),
                                       lo, FALSE)
                          [] op = "div" ->
                                 DivExact(Float("div_bits",
                                                [q |-> BigZero, r |-> x.m, k |-> MANTISSA + 2],
                                                y.m)))

\* properties.probability * rarity_boost of every kind, both factors
\* written as decimals in the code
FloatAdjustedProbability ==
    SubSeq([i \in 1 .. Len(FoodTypes) |->
               Float("mul",
                     Float("div", Float("of", FOOD_TYPES(FoodTypes[i]).probability, 0),
                           Float("of", 1000, 0)),
                     Float("div", Float("of", rarity_boosts(FOOD_TYPES(FoodTypes[i]).rarity), 0),
                           Float("of", 10, 0)))],
           1, Len(FoodTypes))

\* total_probability after the kinds 1 .. i
RECURSIVE FloatTotalProbability(_, _, _)
FloatTotalProbability(i, score, level) ==
    IF i = 0 THEN Float("of", 0, 0)
    ELSE IF can_food_type_spawn(FoodTypes[i], score, level)
    THEN Float("add", FloatTotalProbability(i - 1, score, level),
               FloatAdjustedProbability[i])
    ELSE FloatTotalProbability(i - 1, score, level)

\* the selection loop from kind i on, with cumulative_prob = cum: the kind
\* returned, and whether the fallback after the loop returned it
RECURSIVE FloatSelectFrom(_, _, _, _, _, _)
FloatSelectFrom(i, cum, total, score, level, rand) ==
    IF i > Len(FoodTypes) THEN [kind |-> "NORMAL", fallback |-> TRUE]
    ELSE IF ~can_food_type_spawn(FoodTypes[i], score, level)
    THEN FloatSelectFrom(i + 1, cum, total, score, level, rand)
    ELSE LET c == Float("add", cum, Float("div", FloatAdjustedProbability[i], total))
         IN  IF Float("leq", rand, c)
             THEN [kind |-> FoodTypes[i], fallback |-> FALSE]
             ELSE FloatSelectFrom(i + 1, c, total, score, level, rand)

\* _select_enhanced_food_type with random.random() = rand, a double: the
\* kind returned, and whether one of the two fallback returns returned it
float_select_enhanced_food_type(score, level, rand) ==
    LET total == FloatTotalProbability(Len(FoodTypes), score, level)
    IN  IF total = Float("of", 0, 0) THEN [kind |-> "NORMAL", fallback |-> TRUE]
        ELSE FloatSelectFrom(1, Float("of", 0, 0), total, score, level, rand)

\* Grid.get_random_free_position: the free cells
FreeCells(occ) == {p \in Cells : ~is_position_occupied(occ, p)}

\* the list get_random_free_position builds, x outermost and y innermost
RECURSIVE FreeList(_, _)
FreeList(occ, n) ==
    IF n = 0 THEN <<>>
    ELSE LET p == <<(n - 1) \div GridH, (n - 1) % GridH>>
         IN  FreeList(occ, n - 1) \o (IF is_position_occupied(occ, p) THEN <<>> ELSE <<p>>)

get_random_position(occ, rand) ==
    IF FreeCells(occ) = {} THEN None
    ELSE LET free_positions == FreeList({}, GridW * GridH)
         IN  Some(free_positions[((rand * Len(free_positions)) \div RAND_DENOM) + 1])

\* get_random_free_position: None for a full grid, and else random.choice of
\* the list of free cells, with random.random() = rand / RAND_DENOM
get_random_free_position(occ, rand) ==
    IF FreeCells(occ) = {} THEN None
    ELSE LET free_positions == FreeList(occ, GridW * GridH)
         IN  Some(free_positions[((rand * Len(free_positions)) \div RAND_DENOM) + 1])

\* the uncollected foods of a list
Uncollected(foods) == {i \in 1 .. Len(foods) : ~foods[i].collected}

get_active_food_count(foods) == Cardinality(Uncollected(foods))

get_food_positions(foods) == {foods[i].position : i \in Uncollected(foods)}

\* spawn_food once the kind is chosen; prand is the draw of the free cell
spawn_food(F, kind, prand) ==
    LET position == get_random_free_position(F.occupied, prand)
    IN  IF ~position.set THEN F
        ELSE [F EXCEPT !.active_food = Append(@, [position |-> position.value, food_type |-> kind,
                                                  collected |-> FALSE]),
                       !.occupied = occupy_position(@, position.value)]

SpawnReturnsFoodAlways(F) == TRUE

\* whether spawn_food returns a food
SpawnReturnsFood(F) == get_random_free_position(F.occupied, 0).set

\* SelectSeq on the collected flag
RECURSIVE remove_collected_food(_)
remove_collected_food(foods) ==
    IF foods = <<>> THEN <<>>
    ELSE IF Head(foods).collected
         THEN remove_collected_food(Tail(foods))
         ELSE <<Head(foods)>> \o remove_collected_food(Tail(foods))

\* get_food_at_position: the index of the first uncollected food at pos, 0
\* for none
get_food_at_position(foods, pos) ==
    LET at == {i \in Uncollected(foods) : foods[i].position = pos}
    IN  IF at = {} THEN 0 ELSE CHOOSE i \in at : \A j \in at : i <= j

\* _track_food_combination: Food defines get_rarity but no get_food_type, so
\* for a food that is not COMMON the call of line 525 raises AttributeError
\* before the combination is extended, and the reward of
\* _trigger_combo_effect is never reached
track_food_combination_raises(kind) == FOOD_TYPES(kind).rarity # "COMMON"

\* collect_food_at_position: the food manager it leaves, whether it returns
\* or raises
collect_food_at_position(F, pos) ==
    LET i == get_food_at_position(F.active_food, pos)
    IN  IF i = 0 THEN F
        ELSE [F EXCEPT !.active_food[i].collected = TRUE,
                       !.occupied = free_position(@, pos)]

\* what collect_food_at_position hands to its caller: the index of the food
\* it returns (0 for None), or the exception of _track_food_combination
collect_food_returns(F, pos) ==
    LET i == get_food_at_position(F.active_food, pos)
    IN  IF i # 0 /\ track_food_combination_raises(F.active_food[i].food_type)
        THEN [food |-> 0, raised |-> TRUE]
        ELSE [food |-> i, raised |-> FALSE]

food_update_untimed(F, dt, score, level, maxFood, prand, krand) ==
    LET t1 == F.timers.food_spawn_timer + dt
        ev == IF F.timers.special_event_active
              THEN F.timers.special_event_timer + dt ELSE F.timers.special_event_timer
        F1 == [F EXCEPT !.timers.food_spawn_timer = t1,
                        !.timers.special_event_timer = ev,
                        !.timers.special_event_active =
                            @ /\ ~(ev >= SPECIAL_EVENT_DURATION),
                        !.active_food = remove_collected_food(@)]
        F2 == IF /\ get_active_food_count(F1.active_food) < maxFood
                 /\ SpawnReturnsFood(F1)
              THEN [spawn_food(F1, select_enhanced_food_type(score, level, krand), prand)
                       EXCEPT !.timers.food_spawn_timer = 0]
              ELSE F1
        c  == F2.timers.combo_timer + dt
    IN  IF c > COMBO_TIMEOUT
        THEN [F2 EXCEPT !.combos = <<>>, !.timers.combo_timer = 0]
        ELSE [F2 EXCEPT !.timers.combo_timer = c]

\* EnhancedFoodManager.update; prand and krand are the draws of its
\* spawn_food: the free cell and the kind
food_update(F, dt, score, level, maxFood, prand, krand) ==
    LET t1 == F.timers.food_spawn_timer + dt
        ev == IF F.timers.special_event_active
              THEN F.timers.special_event_timer + dt ELSE F.timers.special_event_timer
        F1 == [F EXCEPT !.timers.food_spawn_timer = t1,
                        !.timers.special_event_timer = ev,
                        !.timers.special_event_active =
                            @ /\ ~(ev >= SPECIAL_EVENT_DURATION),
                        !.active_food = remove_collected_food(@)]
        F2 == IF /\ get_active_food_count(F1.active_food) < maxFood
                 /\ t1 >= SPAWN_INTERVAL
                 /\ SpawnReturnsFood(F1)
              THEN [spawn_food(F1, select_enhanced_food_type(score, level, krand), prand)
                       EXCEPT !.timers.food_spawn_timer = 0]
              ELSE F1
        c  == F2.timers.combo_timer + dt
    IN  IF c > COMBO_TIMEOUT
        THEN [F2 EXCEPT !.combos = <<>>, !.timers.combo_timer = 0]
        ELSE [F2 EXCEPT !.timers.combo_timer = c]

\* spawn_special_event_food; prands are the draws of the free cells, krand
\* the draw of the kind
spawn_special_event_food(F, maxFood, prands, krand) ==
    LET \* the spawns from the i-th on
        RECURSIVE SpecialEventSpawns(_, _)
        SpecialEventSpawns(G, i) ==
            IF i > SPECIAL_EVENT_SPAWNS THEN G
            ELSE SpecialEventSpawns(
                     IF get_active_food_count(G.active_food) < maxFood
                     THEN spawn_food(G, select_enhanced_food_type(0, 1, krand), prands[i])
                     ELSE G,
                     i + 1)
    IN  IF F.timers.special_event_active THEN F
        ELSE SpecialEventSpawns([F EXCEPT !.timers.special_event_active = TRUE,
                                          !.timers.special_event_timer = 0], 1)

\* clear_all_food
clear_all_food(F) ==
    [active_food |-> <<>>,
     occupied    |-> F.occupied \ get_food_positions(F.active_food),
     timers      |-> InitialFoodTimers,
     combos      |-> <<>>]

\* the food manager's state as the variables hold it
CurrentFood == FoodState(active_food, occupied, food_timers, food_combinations)

\* the variables after a food manager operation that leaves the state F
SetFood(F) ==
    /\ active_food' = F.active_food
    /\ occupied' = F.occupied
    /\ food_timers' = F.timers
    /\ food_combinations' = F.combos

\* EnhancedFoodManager.__init__
FoodManagerNew ==
    /\ active_food = <<>>
    /\ food_timers = InitialFoodTimers
    /\ food_combinations = <<>>

(***************************************************************************)
(* game_state.py and game_logic.py                                         *)
(***************************************************************************)
\* GameState.__init__
InitialGameState ==
    [status |-> "MENU", difficulty |-> "medium", score |-> 0, high_score |-> 0,
     level |-> 1, food_eaten |-> 0, game_time |-> 0]

\* GameState.reset_game
reset_game(gs) ==
    [gs EXCEPT !.status = "PLAYING", !.score = 0, !.level = 1,
               !.food_eaten = 0, !.game_time = 0]

pause_game_unguarded(gs) == [gs EXCEPT !.status = "PAUSED"]

\* GameState.pause_game
pause_game(gs) == IF gs.status = "PLAYING" THEN [gs EXCEPT !.status = "PAUSED"] ELSE gs

resume_game_unguarded(gs) == [gs EXCEPT !.status = "PLAYING"]

\* GameState.resume_game
resume_game(gs) == IF gs.status = "PAUSED" THEN [gs EXCEPT !.status = "PLAYING"] ELSE gs

end_game_last_score(gs) == [gs EXCEPT !.status = "GAME_OVER", !.high_score = gs.score]

\* GameState.end_game
end_game(gs) ==
    [gs EXCEPT !.status = "GAME_OVER",
               !.high_score = IF gs.score > gs.high_score THEN gs.score ELSE gs.high_score]

add_score_late_level(gs, points) ==
    [gs EXCEPT !.score = @ + points,
               !.food_eaten = @ + 1,
               !.level = IF gs.food_eaten % 5 = 0 THEN @ + 1 ELSE @]

\* GameState.add_score
add_score(gs, points) ==
    [gs EXCEPT !.score = @ + points,
               !.food_eaten = @ + 1,
               !.level = IF (gs.food_eaten + 1) % 5 = 0 THEN @ + 1 ELSE @]

\* GameState.update_game_time
update_game_time(gs, dt) ==
    IF gs.status = "PLAYING" THEN [gs EXCEPT !.game_time = @ + dt] ELSE gs

\* GameState.is_game_active
is_game_active(gs) == gs.status \in {"PLAYING", "PAUSED"}

SPECIAL_FOOD_INTERVAL == 600

\* one second of update_timer times one cell per second of speed times a
\* multiplier of one, in the units of the model
TICK_SCALE == 100000

\* _handle_movement: the timer it leaves and whether it runs a tick, which
\* it does when update_timer >= 1.0 / (base_speed * multiplier)
handle_movement(timer, dt, base_speed, multiplier) ==
    IF (timer + dt) * base_speed * multiplier >= TICK_SCALE
    THEN [update_timer |-> 0, tick |-> TRUE]
    ELSE [update_timer |-> timer + dt, tick |-> FALSE]

\* GameState.__init__ and the loop variables of GameLogic.__init__
GameStateNew ==
    /\ game_state = InitialGameState
    /\ logic_timers = [update_timer |-> 0, last_special_food_time |-> 0]
    /\ op_count = 0

\* GameLogic._initialize_game; prand is the draw of the first food's cell
initialize_game(prand) ==
    LET snakeCells == Range(InitialBody(get_grid_center))
        F == FoodState(active_food, snakeCells, food_timers, food_combinations)
    IN  /\ body' = InitialBody(get_grid_center)
        /\ direction' = "RIGHT"
        /\ next_direction' = "RIGHT"
        /\ growing' = FALSE
        /\ SetFood(spawn_food(F, "NORMAL", prand))
        /\ ClearedPowerUps
        /\ ResetSpeed
        /\ logic_timers' = [logic_timers EXCEPT !.last_special_food_time = 0]
        /\ game_state' = [reset_game(game_state) EXCEPT !.difficulty = "medium"]
        /\ ret' = [op |-> "reset_game", arg |-> "none", result |-> TRUE]

\* GameLogic.update.  now is the reading of time.time(); prand and krand
\* are the draws of the food manager's spawn, prands those of a special
\* event.  A tick reaches _move_snake, whose call self.snake.move() lacks
\* the grid argument and raises TypeError: the update ends there, with the
\* updates of the systems done and update_timer reset.
logic_update(dt, now, prand, krand, prands) ==
    IF ~is_game_active(game_state)
    THEN /\ UNCHANGED <<snakeVars, occupied, powerVars, speedVars, foodVars, gameVars>>
         /\ ret' = [op |-> "logic_update", arg |-> dt, result |-> "inactive"]
    ELSE LET F1      == food_update(CurrentFood, dt, game_state.score, game_state.level,
                                    max_food, prand, krand)
             special == logic_timers.last_special_food_time + dt
             F2      == IF special >= SPECIAL_FOOD_INTERVAL
                        THEN spawn_special_event_food(F1, max_food, prands, krand)
                        ELSE F1
         IN  /\ game_state' = update_game_time(game_state, dt)
             /\ UpdatedPowerUps(dt)
             /\ SetFood(F2)
             /\ UpdatedSpeed(game_state.food_eaten, game_state.level, game_state.score,
                             game_state.difficulty, None, now)
             /\ LET mv == handle_movement(logic_timers.update_timer, dt,
                                          speed_state'.current_speed,
                                          effect_multipliers'.speed)
                IN  /\ logic_timers' =
                          [update_timer |-> mv.update_timer,
                           last_special_food_time |->
                               IF special >= SPECIAL_FOOD_INTERVAL THEN 0 ELSE special]
                    /\ ret' = [op |-> "logic_update", arg |-> dt,
                               result |-> IF mv.tick THEN "TypeError" ELSE "done"]
             /\ UNCHANGED snakeVars

\* PowerUpsManager.has_power_up
has_power_up(k) == is_active(power_up_history, active_power_ups, k)

\* PowerUpsManager.is_invincible
is_invincible == has_power_up("INVINCIBILITY") \/ has_power_up("SHIELD")

\* GameLogic._check_collisions, with the _handle_collision it calls on a head
\* outside the grid.  CollisionDetector defines check_snake_self_collision
\* but no check_self_collision: the call of line 472 raises AttributeError.
check_collisions ==
    /\ IF is_invincible
       THEN /\ UNCHANGED <<powerVars, game_state>>
            /\ ret' = [op |-> "check_collisions", arg |-> "none", result |-> "invincible"]
       ELSE IF ~is_valid_position(get_head(body))
       THEN IF has_power_up("SHIELD")
            THEN LET hist == [power_up_history EXCEPT
                                 ![active_power_ups["SHIELD"]].state = "expired"]
                 IN  /\ power_up_history' = hist
                     /\ effect_multipliers' = update_effect_multipliers(hist, active_power_ups)
                     /\ UNCHANGED <<active_power_ups, current_time, game_state>>
                     /\ ret' = [op |-> "check_collisions", arg |-> "none",
                                result |-> "shield"]
            ELSE /\ game_state' = end_game(game_state)
                 /\ UNCHANGED powerVars
                 /\ ret' = [op |-> "check_collisions", arg |-> "none",
                            result |-> "game over"]
       ELSE /\ UNCHANGED <<powerVars, game_state>>
            /\ ret' = [op |-> "check_collisions", arg |-> "none",
                       result |-> "AttributeError"]
    /\ UNCHANGED <<snakeVars, occupied, speedVars, foodVars, logic_timers>>

\* GameLogic.change_snake_direction: it hands the name of the direction to
\* Snake.change_direction, whose Direction.get_opposite looks the name up
\* among the Direction members and raises KeyError
change_snake_direction(d) ==
    /\ ret' = [op |-> "change_snake_direction", arg |-> d, result |-> "KeyError"]
    /\ UNCHANGED <<snakeVars, occupied, powerVars, speedVars, foodVars, gameVars>>

\* GameLogic.pause_game, resume_game and end_game
SetGameState(op, gs) ==
    /\ game_state' = gs
    /\ ret' = [op |-> op, arg |-> "none", result |-> TRUE]
    /\ UNCHANGED <<snakeVars, occupied, powerVars, speedVars, foodVars, logic_timers>>

(***************************************************************************)
(* The game: a GameLogic after construction, its snake, grid and food      *)
(* manager driven through at most MaxOps of their operations.  The         *)
(* progress of the game handed to the food manager is one of a few         *)
(* (score, level) pairs, and a random draw is the least or the greatest.   *)
(***************************************************************************)
RandInputs == {0, 999}

\* GameLogic.__init__; draws are the draws the first food's cell is taken from
GameLogicNew(draws) ==
    /\ SnakeNew
    /\ \E prand \in draws :
          LET F == spawn_food(FoodState(<<>>, Range(InitialBody(get_grid_center)),
                                        InitialFoodTimers, <<>>), "NORMAL", prand)
          IN  /\ active_food = F.active_food
              /\ occupied = F.occupied
              /\ food_timers = F.timers
              /\ food_combinations = F.combos
    /\ PowerUpsNew
    /\ SpeedSystemNew(DefaultSpeedConfig)
    /\ game_state = reset_game(InitialGameState)
    /\ logic_timers = [update_timer |-> 0, last_special_food_time |-> 0]
    /\ op_count = 0
    /\ ret = [op |-> "init", arg |-> "none", result |-> TRUE]

GameInit == GameLogicNew(RandInputs)

\* one more operation, while the budget of operations lasts
CountOp ==
    /\ op_count < MaxOps
    /\ op_count' = op_count + 1

GameReset ==
    /\ CountOp
    /\ Len(active_food) < MaxFoodList
    /\ \E prand \in RandInputs : initialize_game(prand)

GameSpawnFood ==
    /\ CountOp
    /\ Len(active_food) < MaxFoodList
    /\ \E sl \in {<<0, 1>>, <<50, 1>>}, force_normal \in BOOLEAN, prand, krand \in RandInputs :
          /\ SetFood(spawn_food(CurrentFood,
                                IF force_normal THEN "NORMAL"
                                ELSE select_enhanced_food_type(sl[1], sl[2], krand),
                                prand))
          /\ ret' = [op |-> "spawn_food", arg |-> "none",
                     result |-> SpawnReturnsFood(CurrentFood)]
    /\ UNCHANGED <<snakeVars, powerVars, speedVars, gameVars>>

GameCollectFood ==
    /\ CountOp
    /\ \E pos \in Cells :
          /\ SetFood(collect_food_at_position(CurrentFood, pos))
          /\ ret' = [op |-> "collect_food_at_position", arg |-> "none",
                     result |-> collect_food_returns(CurrentFood, pos)]
    /\ UNCHANGED <<snakeVars, powerVars, speedVars, gameVars>>

GameFoodUpdate ==
    /\ CountOp
    /\ \E dt \in {10, 20}, sl \in {<<0, 1>>, <<50, 1>>}, prand, krand \in RandInputs :
          /\ food_timers.food_spawn_timer + dt <= MaxSpawnTimer
          /\ SetFood(food_update(CurrentFood, dt, sl[1], sl[2], max_food, prand, krand))
          /\ ret' = [op |-> "food_update", arg |-> dt, result |-> TRUE]
    /\ UNCHANGED <<snakeVars, powerVars, speedVars, gameVars>>

GameClearFood ==
    /\ CountOp
    /\ SetFood(clear_all_food(CurrentFood))
    /\ ret' = [op |-> "clear_all_food", arg |-> "none", result |-> TRUE]
    /\ UNCHANGED <<snakeVars, powerVars, speedVars, gameVars>>

GameChangeDirection ==
    /\ CountOp
    /\ \E d \in Directions : change_direction(d)

GameGrow ==
    /\ CountOp
    /\ grow

GameMove ==
    /\ CountOp
    /\ move(FALSE)

GameSpec ==
    GameInit /\ [][\/ GameReset
                   \/ GameSpawnFood
                   \/ GameCollectFood
                   \/ GameFoodUpdate
                   \/ GameClearFood
                   \/ GameChangeDirection
                   \/ GameGrow
                   \/ GameMove]_vars

(***************************************************************************)
(* The power-ups manager on its own.  The kinds activated are the four     *)
(* that feed a multiplier; the time of activation is the manager's clock   *)
(* or zero (the game time after a reset); the clock advances by 0.7 s or   *)
(* 0.8 s.                                                                  *)
(***************************************************************************)
PowerActivate ==
    /\ Len(power_up_history) < MaxHistory
    /\ \E k \in {"SPEED_BOOST", "SLOW_MOTION", "SCORE_MULTIPLIER", "DOUBLE_POINTS"},
          now \in {0, current_time} : activate_power_up(k, now)
    /\ UNCHANGED <<snakeVars, occupied, speedVars, foodVars, gameVars, op_count>>

PowerDeactivate ==
    /\ \E k \in {"SPEED_BOOST", "SLOW_MOTION", "SCORE_MULTIPLIER", "DOUBLE_POINTS"} :
          deactivate_power_up(k)
    /\ UNCHANGED <<snakeVars, occupied, speedVars, foodVars, gameVars, op_count>>

PowerUpdate ==
    /\ \E dt \in {70, 80} : current_time + dt <= MaxTime /\ power_ups_update(dt)
    /\ UNCHANGED <<snakeVars, occupied, speedVars, foodVars, gameVars, op_count>>

PowerClear ==
    /\ clear_all_power_ups
    /\ UNCHANGED <<snakeVars, occupied, speedVars, foodVars, gameVars, op_count>>

PowerInit ==
    /\ SnakeNew
    /\ occupied = {}
    /\ PowerUpsNew
    /\ SpeedSystemNew(DefaultSpeedConfig)
    /\ FoodManagerNew
    /\ GameStateNew
    /\ ret = [op |-> "init", arg |-> "none", result |-> TRUE]

PowerSpec ==
    PowerInit /\ [][PowerActivate \/ PowerDeactivate \/ PowerUpdate \/ PowerClear]_vars

(***************************************************************************)
(* The speed system on its own.  The progress of the game is one of a few  *)
(* (food eaten, level, score) triples, time.time() advances by 0.2 or      *)
(* 0.5 s between calls, and a custom progression function returns a value  *)
(* below the minimum or above the maximum speed.                           *)
(***************************************************************************)
SpeedUpdate ==
    /\ \E inp \in {<<0, 1, 0>>, <<10, 1, 100>>, <<15, 1, 150>>, <<40, 9, 400>>},
          df \in {"easy", "hard"}, step \in {2, 5},
          custom \in (IF speed_config.progression_type = "CUSTOM"
                      THEN {Some(-100), Some(9000), None} ELSE {None}) :
          /\ wall_time + step <= MaxWall
          /\ speed_update(inp[1], inp[2], inp[3], df, custom, wall_time + step)
    /\ UNCHANGED <<snakeVars, occupied, powerVars, foodVars, gameVars, op_count>>

SpeedSetMultiplier ==
    /\ \E m \in {5, 600} : set_speed_multiplier(m)
    /\ UNCHANGED <<snakeVars, occupied, powerVars, foodVars, gameVars, op_count>>

SpeedSetOverride ==
    /\ \E v \in {None, Some(100)} : set_speed_override(v)
    /\ UNCHANGED <<snakeVars, occupied, powerVars, foodVars, gameVars, op_count>>

SpeedReset ==
    /\ reset_speed
    /\ UNCHANGED <<snakeVars, occupied, powerVars, foodVars, gameVars, op_count>>

SpeedInit ==
    /\ SnakeNew
    /\ occupied = {}
    /\ PowerUpsNew
    \* every progression with the default transition, every transition with
    \* the default progression
    \* SpeedConfig() with its defaults, and SpeedConfig as game_logic.py
    \* builds it from the easy, medium and hard settings of
    \* difficulty_manager.py: initial speed, maximum speed, base increase
    /\ \E c \in {[initial_speed |-> i[1], max_speed |-> i[2], min_speed |-> MIN_SPEED,
                   base_increase |-> i[3]] :
                     i \in {<<800, 3000, 30>>, <<600, 1800, 30>>, <<800, 2500, 50>>,
                            <<1200, 3500, 70>>}},
          ty \in {<<pt, "SMOOTH">> :
                        pt \in {"LINEAR", "EXPONENTIAL", "LOGARITHMIC", "STEPPED", "CUSTOM"}}
                     \cup {<<"EXPONENTIAL", tt>> :
                              tt \in {"INSTANT", "SMOOTH", "EASE_IN", "EASE_OUT",
                                      "EASE_IN_OUT"}} :
          SpeedSystemNew([initial_speed |-> c.initial_speed, max_speed |-> c.max_speed,
                          min_speed |-> c.min_speed, base_increase |-> c.base_increase,
                          progression_type |-> ty[1], transition_type |-> ty[2]])
    /\ FoodManagerNew
    /\ GameStateNew
    /\ ret = [op |-> "init", arg |-> "none", result |-> TRUE]

SpeedSpec ==
    SpeedInit /\ [][SpeedUpdate \/ SpeedSetMultiplier \/ SpeedSetOverride \/ SpeedReset]_vars

(***************************************************************************)
(* A GameLogic driven through at most MaxOps of its own operations.  An    *)
(* update advances the game by 0.1 s or 0.2 s.                             *)
(***************************************************************************)
LogicUpdate ==
    /\ CountOp
    /\ \E dt \in {1, 2}, step \in {2, 5}, prand, krand \in RandInputs,
          prands \in [1 .. SPECIAL_EVENT_SPAWNS -> RandInputs] :
          /\ current_time + dt <= MaxTime
          /\ wall_time + step <= MaxWall
          /\ food_timers.food_spawn_timer + dt <= MaxSpawnTimer
          /\ logic_update(dt, wall_time + step, prand, krand, prands)

LogicPause ==
    /\ CountOp
    /\ SetGameState("pause_game", pause_game(game_state))

LogicResume ==
    /\ CountOp
    /\ SetGameState("resume_game", resume_game(game_state))

LogicEnd ==
    /\ CountOp
    /\ SetGameState("end_game", end_game(game_state))

LogicChangeDirection ==
    /\ CountOp
    /\ \E d \in Directions : change_snake_direction(d)

\* a new game, with one draw of random.choice for each free cell of its grid
LogicSpec ==
    /\ LET n == GridW * GridH - INITIAL_LENGTH
       IN  GameLogicNew({((i * RAND_DENOM) + n - 1) \div n : i \in 0 .. n - 1})
    /\ [][\/ LogicUpdate
          \/ LogicPause
          \/ LogicResume
          \/ LogicEnd
          \/ LogicChangeDirection
          \/ GameReset]_vars

(***************************************************************************)
(* A GameLogic paused and resumed between updates of one or two seconds,   *)
(* long enough for the food manager's spawn interval to elapse.            *)
(***************************************************************************)
PauseUpdate ==
    /\ CountOp
    /\ \E dt \in {10, 20}, prand, krand \in RandInputs,
          prands \in [1 .. SPECIAL_EVENT_SPAWNS -> RandInputs] :
          /\ current_time + dt <= MaxTime
          /\ wall_time + 2 <= MaxWall
          /\ food_timers.food_spawn_timer + dt <= MaxSpawnTimer
          /\ logic_update(dt, wall_time + 2, prand, krand, prands)

PauseSpec == GameInit /\ [][PauseUpdate \/ LogicPause \/ LogicResume]_vars

(***************************************************************************)
(* A food manager on a crowded grid: a new game whose grid has been filled *)
(* with occupy_position until at most MaxFree cells are free.              *)
(***************************************************************************)
FullGridInit ==
    /\ SnakeNew
    /\ \E free \in SUBSET (Cells \ Range(InitialBody(get_grid_center))) :
          /\ Cardinality(free) <= MaxFree
          /\ occupied = Cells \ free
    /\ PowerUpsNew
    /\ SpeedSystemNew(DefaultSpeedConfig)
    /\ FoodManagerNew
    /\ GameStateNew
    /\ ret = [op |-> "init", arg |-> "none", result |-> TRUE]

FullGridSpec ==
    FullGridInit /\ [][GameSpawnFood \/ GameFoodUpdate \/ GameCollectFood]_vars

(***************************************************************************)
(* Collisions in a new game: the snake is moved on the grid of the game, a *)
(* SHIELD or an INVINCIBILITY is activated at the manager's clock, and the *)
(* collisions are checked as a tick does after its move.                   *)
(***************************************************************************)
CollisionActivate ==
    /\ CountOp
    /\ \E k \in {"SHIELD", "INVINCIBILITY"} : activate_power_up(k, current_time)
    /\ UNCHANGED <<snakeVars, occupied, speedVars, foodVars, gameVars>>

CollisionCheck ==
    /\ CountOp
    /\ check_collisions

CollisionSpec ==
    GameInit /\ [][\/ GameChangeDirection
                   \/ GameMove
                   \/ CollisionActivate
                   \/ CollisionCheck]_vars

(***************************************************************************)
(* The grid on its own, from the crowded grids of FullGridInit: cells are  *)
(* occupied and released by hand and a free cell is asked for.  The cells  *)
(* passed are three corners of the grid and one position outside it, which *)
(* occupy_position accepts like any other.                                 *)
(***************************************************************************)
GridOccupy ==
    /\ \E p \in {<<0, 0>>, <<GridW - 1, 0>>, <<GridW - 1, GridH - 1>>, <<GridW, 0>>} :
          /\ occupied' = occupy_position(occupied, p)
          /\ ret' = [op |-> "occupy_position", arg |-> p,
                     result |-> ~is_position_occupied(occupied, p)]
    /\ UNCHANGED <<snakeVars, powerVars, speedVars, foodVars, gameVars, op_count>>

GridFree ==
    /\ \E p \in {<<0, 0>>, <<GridW - 1, 0>>, <<GridW - 1, GridH - 1>>, <<GridW, 0>>} :
          /\ occupied' = free_position(occupied, p)
          /\ ret' = [op |-> "free_position", arg |-> p,
                     result |-> is_position_occupied(occupied, p)]
    /\ UNCHANGED <<snakeVars, powerVars, speedVars, foodVars, gameVars, op_count>>

GridRandomFree ==
    /\ \E rand \in RandInputs :
          ret' = [op |-> "get_random_free_position", arg |-> rand,
                  result |-> get_random_free_position(occupied, rand)]
    /\ UNCHANGED <<snakeVars, occupied, powerVars, speedVars, foodVars, gameVars, op_count>>

GridSpec == FullGridInit /\ [][GridOccupy \/ GridFree \/ GridRandomFree]_vars

(***************************************************************************)
(* The food manager of a new game on its own: foods are spawned and        *)
(* collected with no time passing, so that collections of uncommon foods   *)
(* add up to a combination.                                                *)
(***************************************************************************)
CollectSpawn ==
    /\ Len(active_food) < MaxFoodList
    /\ \E sl \in {<<0, 1>>, <<50, 1>>}, prand, krand \in RandInputs :
          /\ SetFood(spawn_food(CurrentFood,
                                select_enhanced_food_type(sl[1], sl[2], krand), prand))
          /\ ret' = [op |-> "spawn_food", arg |-> "none",
                     result |-> SpawnReturnsFood(CurrentFood)]
    /\ UNCHANGED <<snakeVars, powerVars, speedVars, gameVars, op_count>>

CollectAt ==
    /\ \E pos \in Cells :
          /\ SetFood(collect_food_at_position(CurrentFood, pos))
          /\ ret' = [op |-> "collect_food_at_position", arg |-> pos,
                     result |-> collect_food_returns(CurrentFood, pos)]
    /\ UNCHANGED <<snakeVars, powerVars, speedVars, gameVars, op_count>>

CollectSpec == GameInit /\ [][CollectSpawn \/ CollectAt]_vars

(***************************************************************************)
(* The choice of a food's kind on its own: a new food manager asked for a  *)
(* kind at every score, level and draw of random.random().                 *)
(***************************************************************************)
\* _select_enhanced_food_type applied to the score, level and draw at hand
KindSelect ==
    /\ ret.op = "init"
    /\ ret' = [op |-> "select_enhanced_food_type", arg |-> ret.arg,
               result |-> select_enhanced_food_type(ret.arg[1], ret.arg[2], ret.arg[3])]
    /\ UNCHANGED <<snakeVars, occupied, powerVars, speedVars, foodVars, gameVars, op_count>>

\* the scores go in steps of 50, the least min_score of the table
KindInit ==
    /\ SnakeNew
    /\ occupied = Range(InitialBody(get_grid_center))
    /\ PowerUpsNew
    /\ SpeedSystemNew(DefaultSpeedConfig)
    /\ FoodManagerNew
    /\ GameStateNew
    /\ \E score \in {50 * i : i \in 0 .. MaxScoreSteps}, level \in 1 .. MaxLevel,
          rand \in {(i * RAND_DENOM) \div MaxDraws : i \in 0 .. MaxDraws - 1}
                   \cup {RAND_DENOM - 1} :
          ret = [op |-> "init", arg |-> <<score, level, rand>>, result |-> TRUE]

KindSpec == KindInit /\ [][KindSelect]_vars

(***************************************************************************)
(* The same choice in the arithmetic of the code, at the scores and levels *)
(* where a kind becomes eligible and at the least and greatest value of    *)
(* random.random().                                                        *)
(***************************************************************************)
FloatKindSelect ==
    /\ ret.op = "init"
    /\ ret' = [op |-> "float_select_enhanced_food_type", arg |-> ret.arg,
               result |-> float_select_enhanced_food_type(ret.arg[1], ret.arg[2],
                                                          ret.arg[3])]
    /\ UNCHANGED <<snakeVars, occupied, powerVars, speedVars, foodVars, gameVars, op_count>>

FloatKindInit ==
    /\ SnakeNew
    /\ occupied = Range(InitialBody(get_grid_center))
    /\ PowerUpsNew
    /\ SpeedSystemNew(DefaultSpeedConfig)
    /\ FoodManagerNew
    /\ GameStateNew
    /\ \E score \in {FOOD_TYPES(k).min_score : k \in Range(FoodTypes)},
          level \in ({FOOD_TYPES(k).min_level : k \in Range(FoodTypes)} \ {0}) \cup {1},
          rand \in {Float("of", 0, 0), Float("below_one", 0, 0)} :
          ret = [op |-> "init", arg |-> <<score, level, rand>>, result |-> TRUE]

FloatKindSpec == FloatKindInit /\ [][FloatKindSelect]_vars

(***************************************************************************)
(* The collision detector asked for the type of a collision: the snake is  *)
(* any body of up to MaxDetectorBody cells in or next to the corner of the *)
(* grid (a cell may repeat, the head may lie outside), the foods are up to *)
(* MaxDetectorFoods foods, collected or not, and the obstacles any cells   *)
(* among the same.                                                         *)
(***************************************************************************)
DetectorInit ==
    /\ \E n \in 1 .. MaxDetectorBody :
          body \in [1 .. n -> {<<0, 0>>, <<1, 0>>, <<-1, 0>>}]
    /\ direction = "RIGHT"
    /\ next_direction = "RIGHT"
    /\ growing = FALSE
    /\ occupied = {}
    /\ PowerUpsNew
    /\ SpeedSystemNew(DefaultSpeedConfig)
    /\ FoodManagerNew
    /\ GameStateNew
    /\ \E n \in 0 .. MaxDetectorFoods, obstacles \in SUBSET {<<0, 0>>, <<1, 0>>, <<-1, 0>>} :
          \E food_list \in [1 .. n -> [position : {<<0, 0>>, <<-1, 0>>},
                                       food_type : {"NORMAL"}, collected : BOOLEAN]] :
             ret = [op |-> "init", arg |-> <<food_list, obstacles>>, result |-> TRUE]

DetectorType ==
    /\ ret.op = "init"
    /\ ret' = [op |-> "get_collision_type", arg |-> ret.arg,
               result |-> get_collision_type(body, ret.arg[1], ret.arg[2])]
    /\ UNCHANGED <<snakeVars, occupied, powerVars, speedVars, foodVars, gameVars, op_count>>

DetectorSpec == DetectorInit /\ [][DetectorType]_vars

(***************************************************************************)
(* A snake and a grid on their own, as the unit tests build them: the      *)
(* grid is empty, or holds the snake's cells as after _initialize_game.    *)
(***************************************************************************)
SnakeInit ==
    /\ SnakeNew
    /\ occupied \in {{}, Range(InitialBody(get_grid_center))}
    /\ PowerUpsNew
    /\ SpeedSystemNew(DefaultSpeedConfig)
    /\ FoodManagerNew
    /\ GameStateNew
    /\ ret = [op |-> "init", arg |-> "none", result |-> TRUE]

SnakeChangeDirection ==
    /\ \E d \in Directions : change_direction(d)
    /\ UNCHANGED op_count

SnakeGrow ==
    /\ grow
    /\ UNCHANGED op_count

SnakeMove ==
    /\ \E wrap \in BOOLEAN : move(wrap)
    /\ UNCHANGED op_count

SnakeSpec ==
    SnakeInit /\ [][SnakeChangeDirection \/ SnakeGrow \/ SnakeMove]_vars

(***************************************************************************)
(* The same snake and grid with a collision detector on the grid, asked    *)
(* between the moves whether the cell ahead of the head is safe.           *)
(***************************************************************************)
LookaheadSafe ==
    LET ahead == NewHead(body, next_direction, FALSE)
    IN  /\ ret' = [op |-> "is_position_safe_for_snake", arg |-> ahead,
                   result |-> is_position_safe_for_snake(ahead, body, occupied)]
        /\ UNCHANGED <<snakeVars, occupied, powerVars, speedVars, foodVars, gameVars,
                       op_count>>

LookaheadSpec ==
    SnakeInit /\ [][SnakeChangeDirection \/ SnakeGrow \/ SnakeMove \/ LookaheadSafe]_vars

(***************************************************************************)
(* The game state on its own, from its construction (status MENU): games   *)
(* are started, paused, resumed and ended, and points of 10 or 25 are      *)
(* added for at most MaxFoodEaten foods a game.                            *)
(***************************************************************************)
StateReset ==
    /\ SetGameState("reset_game", reset_game(game_state))
    /\ UNCHANGED op_count

StatePause ==
    /\ SetGameState("pause_game", pause_game(game_state))
    /\ UNCHANGED op_count

StateResume ==
    /\ SetGameState("resume_game", resume_game(game_state))
    /\ UNCHANGED op_count

StateEnd ==
    /\ SetGameState("end_game", end_game(game_state))
    /\ UNCHANGED op_count

StateAddScore ==
    /\ game_state.food_eaten < MaxFoodEaten
    /\ \E points \in {10, 25} :
          /\ game_state' = add_score(game_state, points)
          /\ ret' = [op |-> "add_score", arg |-> points, result |-> TRUE]
    /\ UNCHANGED <<snakeVars, occupied, powerVars, speedVars, foodVars, logic_timers,
                   op_count>>

StateSpec ==
    SnakeInit /\ [][StateReset \/ StatePause \/ StateResume \/ StateEnd \/ StateAddScore]_vars

(***************************************************************************)
(* Properties of the grid.                                                 *)
(***************************************************************************)
\* C1: in every reachable state of the game the occupied cells of the grid
\* are exactly the cells of the snake's body and of the uncollected foods.
C1_OccupiedIsSnakeAndFood ==
    occupied = Range(body) \cup get_food_positions(active_food)

(***************************************************************************)
(* Properties of the snake.                                                *)
(***************************************************************************)
\* C2: a successful Snake.move never leaves two equal cells among the body
\* indices 0 .. len-2 (the body without its tail).
C2_MoveNoRepeat ==
    LET NoRepeatUpTo(b, n) == \A i, j \in 1 .. n : i # j => b[i] # b[j]
    IN  (ret.op = "move" /\ ret.result) => NoRepeatUpTo(body, Len(body) - 1)

C2_Witness ==
    /\ ret.op = "move" /\ ret.result
    /\ Len(body) = MaxSnakeLen
    /\ direction = "DOWN"

\* C3: a move of a snake that is not growing into the cell its own tail
\* holds succeeds.
C3_TailCellMoveSucceeds ==
    [][(/\ ret'.op = "move"
        /\ ~growing
        /\ NewHead(body, next_direction, ret'.arg) = get_tail(body))
       => ret'.result = TRUE]_vars

\* C4: change_direction to the opposite of the current facing returns False
\* and leaves direction and next_direction unchanged, whatever is pending.
C4_ReverseRejected ==
    [][(ret'.op = "change_direction" /\ ret'.arg = get_opposite(direction))
       => (/\ ret'.result = FALSE
           /\ direction' = direction
           /\ next_direction' = next_direction)]_vars

C4_Witness ==
    /\ ret.op = "change_direction" /\ ret.arg = "UP" /\ ret.result = FALSE
    /\ direction = "DOWN"
    /\ next_direction = "LEFT"

\* C5: change_direction with the current facing returns True and leaves the
\* facing pending, and a move made with the facing pending keeps the facing
\* and, when it succeeds, puts the head one step ahead in that facing.
C5_SameDirectionNoOp ==
    [][/\ (ret'.op = "change_direction" /\ ret'.arg = direction)
          => (ret'.result = TRUE /\ next_direction' = direction /\ direction' = direction)
       /\ (ret'.op = "move" /\ next_direction = direction)
          => (/\ direction' = direction
              /\ ret'.result => get_head(body') = NewHead(body, direction, ret'.arg))]_vars

C5_Witness ==
    /\ ret.op = "change_direction" /\ ret.arg = direction /\ ret.result = TRUE
    /\ direction = "UP"
    /\ next_direction = "UP"
    /\ Len(body) > INITIAL_LENGTH

(***************************************************************************)
(* Properties of the power-ups manager.                                    *)
(***************************************************************************)
\* the index in power_up_history of the latest activation of kind k, or 0
LastActivation(k) ==
    LET S == {i \in 1 .. Len(power_up_history) : power_up_history[i].power_up_type = k}
    IN  IF S = {} THEN 0 ELSE CHOOSE i \in S : \A j \in S : j <= i

\* C6: as update advances the time to t, a kind activated with end time end
\* and cooldown end cend is reported Active while t < end, Cooldown while
\* end <= t < cend, and Inactive from cend on.
C6_ActiveCooldownInactive ==
    [][ret'.op = "update" =>
        \A k \in PowerUpTypeSet :
            LastActivation(k) # 0 =>
                LET e == power_up_history[LastActivation(k)]
                    t == current_time'
                IN  /\ (get_power_up_status(k) = "active" /\ t < e.end_time)
                       => get_power_up_status(k)' = "active"
                    /\ (e.end_time <= t /\ t < e.cooldown_end_time)
                       => get_power_up_status(k)' = "cooldown"
                    /\ (t >= e.cooldown_end_time)
                       => get_power_up_status(k)' = "inactive"]_vars

\* C7: activate_power_up at a time inside the cooldown window of the kind's
\* latest activation returns False and leaves that activation's end_time and
\* cooldown_end_time as they are.
C7_CooldownRejects ==
    [][(/\ ret'.op = "activate_power_up"
        /\ LastActivation(ret'.arg[1]) # 0
        /\ get_power_up_status(ret'.arg[1]) # "active"
        /\ power_up_history[LastActivation(ret'.arg[1])].end_time <= ret'.arg[2]
        /\ ret'.arg[2] < power_up_history[LastActivation(ret'.arg[1])].cooldown_end_time)
       => (/\ ret'.result = FALSE
           /\ power_up_history' = power_up_history)]_vars

\* C8: activate_power_up for a kind that is Active returns True, the kind's
\* end_time becomes now + duration, and the registry holds exactly one live
\* instance of the kind.
C8_ReactivateRestarts ==
    [][LET \* the objects of kind k that the registry reg holds in state ACTIVE
           LiveInstances(hist, reg, k) ==
               {i \in 1 .. Len(hist) :
                   /\ hist[i].power_up_type = k
                   /\ hist[i].state = "active"
                   /\ \E kk \in PowerUpTypeSet : reg[kk] = i}
           \* the status reported for kind k by the registry reg
           StatusIn(hist, reg, k) ==
               IF reg[k] # 0 THEN hist[reg[k]].state ELSE "inactive"
       IN
       (ret'.op = "activate_power_up" /\ get_power_up_status(ret'.arg[1]) = "active")
       => (/\ ret'.result = TRUE
           /\ StatusIn(power_up_history', active_power_ups', ret'.arg[1]) = "active"
           /\ power_up_history'[active_power_ups'[ret'.arg[1]]].end_time
                 = ret'.arg[2] + power_up_effects(ret'.arg[1]).duration
           /\ Cardinality(LiveInstances(power_up_history', active_power_ups', ret'.arg[1])) = 1)]_vars

C8_Witness ==
    /\ ret.op = "activate_power_up" /\ ret.result = TRUE
    /\ ret.arg[2] > 0
    /\ Len(power_up_history) = 2
    /\ power_up_history[1].power_up_type = ret.arg[1]
    /\ power_up_history[1].start_time = 0
    /\ power_up_history[2].power_up_type = ret.arg[1]
    /\ power_up_history[2].end_time = ret.arg[2] + power_up_effects(ret.arg[1]).duration
    /\ active_power_ups[ret.arg[1]] = 2

\* C9: the speed multiplier is the product of the magnitudes of the Active
\* speed effects and the score multiplier the product of the magnitudes of
\* the Active score effects, each 1 when none is Active.
C9_MultipliersAreProducts ==
    LET \* the product of the magnitudes of those of the kinds a and b that
        \* are Active
        ProductOfActive(a, b) ==
            ((IF get_power_up_status(a) = "active"
              THEN power_up_effects(a).magnitude ELSE 100)
             * (IF get_power_up_status(b) = "active"
                THEN power_up_effects(b).magnitude ELSE 100)) \div 100
    IN  /\ effect_multipliers.speed = ProductOfActive("SPEED_BOOST", "SLOW_MOTION")
        /\ effect_multipliers.score = ProductOfActive("SCORE_MULTIPLIER", "DOUBLE_POINTS")

C9_Witness ==
    /\ get_power_up_status("SCORE_MULTIPLIER") = "active"
    /\ get_power_up_status("DOUBLE_POINTS") = "active"
    /\ effect_multipliers.score = 400
    /\ ret.op = "update"

(***************************************************************************)
(* Properties of the speed system.                                         *)
(***************************************************************************)
\* C10: after every call to SpeedProgressionSystem.update, current_speed
\* lies within [min_speed, max_speed].
C10_SpeedWithinLimits ==
    ret.op = "speed_update" =>
        /\ speed_config.min_speed <= speed_state.current_speed
        /\ speed_state.current_speed <= speed_config.max_speed

\* a transition towards the maximum speed is under way, part of it done
C10_Witness ==
    /\ ret.op = "speed_update"
    /\ speed_state.is_transitioning
    /\ speed_state.target_speed = speed_config.max_speed
    /\ speed_state.transition_progress > 0
    /\ speed_state.previous_speed < speed_state.current_speed
    /\ speed_state.current_speed < speed_state.target_speed

\* C11: whenever update recomputes the target speed, the target is the
\* progression of (food eaten, level) times the difficulty multiplier times
\* the user's speed multiplier, clamped to [min_speed, max_speed]; with the
\* exponential progression, base 8, 10 foods and level 1 the unclamped
\* progression is 8 x 1.05^10, about 13.03.
C11_TargetIsClampedProduct ==
    [][(ret'.op = "speed_update" /\ ret'.result /\ ~speed_override.set)
       => LET food  == last_seen'[1]
              level == last_seen'[2]
              base  == calculate_base_speed(speed_config, food, level, ret'.arg[2])
              prod  == (((base * difficulty_multiplier(ret'.arg[1])) \div 100)
                        * speed_multiplier) \div 100
          IN  /\ speed_state'.target_speed = Clamp(speed_config, prod)
              /\ (/\ speed_config.progression_type = "EXPONENTIAL"
                  /\ speed_config.initial_speed = 800
                  /\ food = 10 /\ level = 1)
                 => base \in 1302 .. 1304]_vars

(***************************************************************************)
(* Properties of GameLogic.update.                                         *)
(***************************************************************************)
\* C12: an update of an active game adds the elapsed time to update_timer
\* and takes one whole tick interval off it for every tick it executes:
\* afterwards the timer is non-negative and below the interval, and the time
\* taken off is a whole number of intervals, so that none is discarded.
C12_AccumulatorKeepsRemainder ==
    [][(ret'.op = "logic_update" /\ ret'.result # "inactive")
       => LET rate == speed_state'.current_speed * effect_multipliers'.speed
              left == logic_timers'.update_timer
              used == logic_timers.update_timer + ret'.arg - left
          IN  /\ left >= 0
              /\ left * rate < TICK_SCALE
              /\ (used * rate) % TICK_SCALE = 0]_vars

\* C13: the outcome of a run depends on the simulated time only, not on how
\* it is split into frames: from any state of an active game, two splits of
\* the same total time into at most MaxFrames frames run the same number of
\* ticks of _handle_movement.
C13_FrameSplitIndependent ==
    LET FrameSplits == UNION {[1 .. n -> {1, 2}] : n \in 1 .. MaxFrames}
        RECURSIVE TotalTime(_)
        TotalTime(frames) ==
            IF frames = <<>> THEN 0 ELSE Head(frames) + TotalTime(Tail(frames))
        RECURSIVE TicksOver(_, _)
        TicksOver(timer, frames) ==
            IF frames = <<>> THEN 0
            ELSE LET mv == handle_movement(timer, Head(frames), speed_state.current_speed,
                                           effect_multipliers.speed)
                 IN  (IF mv.tick THEN 1 ELSE 0) + TicksOver(mv.update_timer, Tail(frames))
    IN  is_game_active(game_state) =>
            \A f1, f2 \in FrameSplits :
                TotalTime(f1) = TotalTime(f2) =>
                    TicksOver(logic_timers.update_timer, f1)
                    = TicksOver(logic_timers.update_timer, f2)

\* C14: when the snake's move fails in a tick (wall, self or obstacle
\* collision) and neither invincibility nor a shield is active, the game is
\* GAME_OVER at the end of that update.  An update that ran a tick returns
\* with the TypeError of _move_snake.
C14_FailedMoveEndsGame ==
    [][(/\ ret'.op = "logic_update"
        /\ ret'.result = "TypeError"
        /\ MoveOutcome(body, occupied', next_direction, FALSE) # "ok"
        /\ ~is_active(power_up_history', active_power_ups', "INVINCIBILITY")
        /\ ~is_active(power_up_history', active_power_ups', "SHIELD"))
       => game_state'.status = "GAME_OVER"]_vars

\* C15: once the game is GAME_OVER it stays GAME_OVER under update,
\* pause_game and resume_game, and update changes neither the snake, the
\* score, the foods nor the game time.
C15_GameOverIsAbsorbing ==
    [][(game_state.status = "GAME_OVER"
        /\ ret'.op \in {"logic_update", "pause_game", "resume_game"})
       => /\ game_state'.status = "GAME_OVER"
          /\ ret'.op = "logic_update" =>
                /\ UNCHANGED <<snakeVars, active_food>>
                /\ game_state'.score = game_state.score
                /\ game_state'.game_time = game_state.game_time]_vars

C15_Witness ==
    /\ game_state.status = "GAME_OVER"
    /\ ret.op = "logic_update"
    /\ ret.result = "inactive"
    /\ game_state.game_time > 0

\* C16: in an update that runs a tick, the power-up, food and speed updates
\* are made after the tick's move, so that they see the values the move
\* leaves: when the move raises, none of them has been made yet.
C16_SystemsUpdateAfterMove ==
    [][(ret'.op = "logic_update" /\ ret'.result = "TypeError")
       => UNCHANGED <<powerVars, foodVars, speedVars>>]_vars

(***************************************************************************)
(* Properties of the food manager within the game.                         *)
(***************************************************************************)
\* C17: in every reachable state the number of uncollected active foods is
\* at most max_food.
C17_FoodCountBounded == get_active_food_count(active_food) <= max_food

(***************************************************************************)
(* Properties of the choice of a food's kind.                              *)
(***************************************************************************)
\* C18: for every score, level and draw, the kind chosen is a kind of the
\* table whose min_score and min_level are met by the score and the level.
C18_ChosenKindIsEligible ==
    ret.op = "select_enhanced_food_type" =>
        /\ ret.result \in Range(FoodTypes)
        /\ ret.arg[1] >= FOOD_TYPES(ret.result).min_score
        /\ ret.arg[2] >= FOOD_TYPES(ret.result).min_level

C18_Witness ==
    /\ ret.op = "select_enhanced_food_type"
    /\ ret.result = "DOUBLE_POINTS"
    /\ ret.arg[2] < FOOD_TYPES("GROWTH_BOOST").min_level

\* C19: when a kind is eligible, the fallback NORMAL is returned only when
\* every eligible kind has zero effective weight.
C19_FallbackOnlyWithoutWeight ==
    (/\ ret.op = "float_select_enhanced_food_type"
     /\ \E k \in Range(FoodTypes) : can_food_type_spawn(k, ret.arg[1], ret.arg[2])
     /\ ret.result.fallback)
    => \A k \in Range(FoodTypes) : AdjustedProbability(k, ret.arg[1], ret.arg[2]) = 0

(***************************************************************************)
(* Properties of spawning on a full grid.                                  *)
(***************************************************************************)
\* C20: when the grid has no free cell, spawn_food returns None and leaves
\* the active foods and the grid as they are, and the food manager's update
\* does not reset the spawn timer.
C20_FullGridSpawnIsSkipped ==
    [][FreeCells(occupied) = {} =>
          /\ ret'.op = "spawn_food" =>
                /\ ~ret'.result
                /\ UNCHANGED <<active_food, occupied>>
          /\ ret'.op = "food_update" =>
                /\ food_timers'.food_spawn_timer > food_timers.food_spawn_timer
                /\ active_food' = remove_collected_food(active_food)
                /\ occupied' = occupied]_vars

C20_Witness ==
    /\ ret.op = "food_update"
    /\ FreeCells(occupied) = {}
    /\ get_active_food_count(active_food) < max_food
    /\ food_timers.food_spawn_timer > SPAWN_INTERVAL

(***************************************************************************)
(* C21: collect_food_at_position on a cell holding an uncollected food     *)
(* returns that food, marks it collected and leaves the cell released in   *)
(* the grid; on a cell with no uncollected food it returns None and        *)
(* changes neither the grid nor any food.                                  *)
(***************************************************************************)
C21_CollectReleasesCell ==
    [][(ret'.op = "collect_food_at_position" /\ ret'.arg \in Cells) =>
           LET i == get_food_at_position(active_food, ret'.arg)
           IN  IF i # 0
               THEN /\ ret'.result = [food |-> i, raised |-> FALSE]
                    /\ active_food'[i].collected
                    /\ ~is_position_occupied(occupied', ret'.arg)
               ELSE /\ ret'.result = [food |-> 0, raised |-> FALSE]
                    /\ occupied' = occupied
                    /\ active_food' = active_food]_vars

(***************************************************************************)
(* C22: growth requests accumulate.  Every grow adds one to the growth     *)
(* the snake still owes, a successful move with growth owed keeps the tail *)
(* (one cell longer) and takes one off, and a move with none owed leaves   *)
(* the length unchanged; so n requests give n longer moves.  The growth    *)
(* owed is what the snake remembers of the requests, its field growing.    *)
(***************************************************************************)
C22_GrowthAccumulates ==
    [][LET pending_growth(g) == IF g THEN 1 ELSE 0
       IN  /\ ret'.op = "grow" =>
                pending_growth(growing') = pending_growth(growing) + 1
           /\ (ret'.op = "move" /\ ret'.result) =>
                IF pending_growth(growing) > 0
                THEN /\ Len(body') = Len(body) + 1
                     /\ pending_growth(growing') = pending_growth(growing) - 1
                ELSE /\ Len(body') = Len(body)
                     /\ pending_growth(growing') = 0]_vars

(***************************************************************************)
(* C23: occupy_position returns True and adds the cell exactly when the    *)
(* cell was free, and returns False with the occupancy unchanged when it   *)
(* was occupied; free_position returns True and removes the cell exactly   *)
(* when it was occupied, and returns False with the occupancy unchanged    *)
(* otherwise, so that releasing a cell a second time returns False.        *)
(***************************************************************************)
C23_OccupyAndFreeReport ==
    [][/\ ret'.op = "occupy_position" =>
            IF ret'.arg \notin occupied
            THEN ret'.result /\ occupied' = occupied \cup {ret'.arg}
            ELSE ~ret'.result /\ occupied' = occupied
       /\ ret'.op = "free_position" =>
            /\ IF ret'.arg \in occupied
               THEN ret'.result /\ occupied' = occupied \ {ret'.arg}
               ELSE ~ret'.result /\ occupied' = occupied
            /\ (ret.op = "free_position" /\ ret.arg = ret'.arg) => ~ret'.result]_vars

\* a release of a cell of the grid that is not occupied has returned False
C23_Witness ==
    /\ ret.op = "free_position"
    /\ ~ret.result
    /\ ret.arg \in Cells \ occupied

(***************************************************************************)
(* C24: get_random_free_position returns None exactly when every cell of   *)
(* the grid is occupied, and otherwise a cell within bounds that is not    *)
(* occupied; it never changes the occupancy.                               *)
(***************************************************************************)
C24_RandomFreeCell ==
    [][ret'.op = "get_random_free_position" =>
           /\ ~ret'.result.set <=> (Cells \subseteq occupied)
           /\ ret'.result.set =>
                /\ is_valid_position(ret'.result.value)
                /\ ret'.result.value \notin occupied
           /\ occupied' = occupied]_vars

\* on a grid with no free cell the answer has been None
C24_Witness ==
    /\ ret.op = "get_random_free_position"
    /\ ~ret.result.set
    /\ Cells \subseteq occupied

(***************************************************************************)
(* C25: in every reachable state of the snake each two consecutive body    *)
(* cells differ by exactly one orthogonal unit step.                       *)
(***************************************************************************)
C25_ConsecutiveCellsOneStep ==
    \A i \in 1 .. Len(body) - 1 :
        \E d \in Directions : body[i] = PosAdd(body[i + 1], DirVec(d))

\* C25 as amended: each two consecutive body cells differ by exactly one
\* orthogonal unit step taken modulo the grid dimensions, so that the cells
\* on both sides of an edge crossed by a wrap-around move count as one step
\* apart.
C25_ConsecutiveCellsOneStepModulo ==
    \A i \in 1 .. Len(body) - 1 :
        LET dx == (body[i][1] - body[i + 1][1]) % GridW
            dy == (body[i][2] - body[i + 1][2]) % GridH
        IN  \/ dx \in {1, GridW - 1} /\ dy = 0
            \/ dx = 0 /\ dy \in {1, GridH - 1}

\* a wrap-around move has taken the head over the right edge
C25_Witness ==
    /\ ret.op = "move" /\ ret.result /\ ret.arg
    /\ get_head(body)[1] = 0
    /\ body[2][1] = GridW - 1

(***************************************************************************)
(* C26: a move that would take the head off the edge of the grid succeeds  *)
(* when wrap_around is enabled, the new head being head + direction taken  *)
(* modulo the grid dimensions; when wrap_around is disabled it returns     *)
(* False and leaves the body and the occupancy of the grid unchanged.      *)
(***************************************************************************)
C26_MoveOffTheEdge ==
    [][LET raw == PosAdd(get_head(body), DirVec(next_direction))
       IN  (ret'.op = "move" /\ ~is_valid_position(raw)) =>
               IF ret'.arg
               THEN /\ ret'.result
                    /\ get_head(body') = <<raw[1] % GridW, raw[2] % GridH>>
               ELSE /\ ~ret'.result
                    /\ body' = body
                    /\ occupied' = occupied]_vars

\* C26 as amended: with wrap_around enabled the move succeeds, the new head
\* being head + direction taken modulo the grid dimensions, when that cell
\* is neither a cell of the body nor occupied in the grid; with wrap_around
\* disabled it returns False and leaves the body and the occupancy unchanged.
C26_MoveOffTheEdgeOntoFreeCell ==
    [][LET raw == PosAdd(get_head(body), DirVec(next_direction))
           h   == <<raw[1] % GridW, raw[2] % GridH>>
       IN  (ret'.op = "move" /\ ~is_valid_position(raw)) =>
               IF ret'.arg
               THEN (h \notin Range(body) /\ h \notin occupied) =>
                        /\ ret'.result
                        /\ get_head(body') = h
               ELSE /\ ~ret'.result
                    /\ body' = body
                    /\ occupied' = occupied]_vars

\* a wrap-around move has taken the head over the top edge
C26_Witness ==
    /\ ret.op = "move" /\ ret.result /\ ret.arg
    /\ direction = "UP"
    /\ get_head(body)[2] = GridH - 1
    /\ body[2][2] = 0

(***************************************************************************)
(* Properties of the game state.                                           *)
(***************************************************************************)
\* C27: pause_game changes the status only from PLAYING, to PAUSED, and
\* resume_game only from PAUSED, to PLAYING; in any other status each
\* leaves the whole game state unchanged.
C27_PauseResumeOnlyFromTheirStatus ==
    [][/\ ret'.op = "pause_game" =>
            IF game_state.status = "PLAYING"
            THEN game_state' = [game_state EXCEPT !.status = "PAUSED"]
            ELSE game_state' = game_state
       /\ ret'.op = "resume_game" =>
            IF game_state.status = "PAUSED"
            THEN game_state' = [game_state EXCEPT !.status = "PLAYING"]
            ELSE game_state' = game_state]_vars

\* resume_game has been called on a finished game with a score, and the game
\* is still over
C27_Witness ==
    /\ ret.op = "resume_game"
    /\ game_state.status = "GAME_OVER"
    /\ game_state.score > 0

\* C28: after n calls of add_score since the last reset_game, food_eaten is
\* n, level is 1 + n \div 5 and score is the sum of the points added: a
\* reset_game sets the three to 0, 1 and 0, every add_score adds one food
\* and its points, no other operation changes them, and the level follows
\* the foods.
C28_ScoreFoodAndLevel ==
    [][/\ ret'.op = "reset_game" =>
            /\ game_state'.food_eaten = 0
            /\ game_state'.score = 0
       /\ ret'.op = "add_score" =>
            /\ game_state'.food_eaten = game_state.food_eaten + 1
            /\ game_state'.score = game_state.score + ret'.arg
       /\ ret'.op \notin {"reset_game", "add_score"} =>
            /\ game_state'.food_eaten = game_state.food_eaten
            /\ game_state'.score = game_state.score
       /\ game_state'.level = 1 + (game_state'.food_eaten \div 5)]_vars

\* the tenth food of a game has been added: level 3
C28_Witness ==
    /\ ret.op = "add_score"
    /\ game_state.food_eaten = 10
    /\ game_state.level = 3

\* C29: end_game sets the status GAME_OVER and high_score to the greater of
\* high_score and score; reset_game never changes high_score; high_score
\* never decreases.
C29_HighScoreKept ==
    [][/\ ret'.op = "end_game" =>
            /\ game_state'.status = "GAME_OVER"
            /\ game_state'.high_score =
                   IF game_state.score > game_state.high_score
                   THEN game_state.score ELSE game_state.high_score
       /\ ret'.op = "reset_game" => game_state'.high_score = game_state.high_score
       /\ game_state'.high_score >= game_state.high_score]_vars

\* a game has ended with a score below the high score of an earlier game
C29_Witness ==
    /\ ret.op = "end_game"
    /\ game_state.status = "GAME_OVER"
    /\ 0 < game_state.score
    /\ game_state.score < game_state.high_score

(***************************************************************************)
(* C30: a collision detected while a SHIELD is active consumes the shield  *)
(* (it is deactivated at once and no longer reported active) and does not  *)
(* end the game; a collision with neither a shield nor an invincibility    *)
(* active ends the game.  The collision is a move the snake has just       *)
(* refused, at a wall or at its own body, and it is detected by the check  *)
(* of collisions that follows the move.                                    *)
(***************************************************************************)
C30_ShieldConsumedByCollision ==
    [][(ret.op = "move" /\ ~ret.result /\ ret'.op = "check_collisions") =>
           IF has_power_up("SHIELD")
           THEN /\ ~is_active(power_up_history', active_power_ups', "SHIELD")
                /\ game_state'.status = game_state.status
           ELSE ~has_power_up("INVINCIBILITY") => game_state'.status = "GAME_OVER"]_vars
(***************************************************************************)
(* C31: get_collision_type reports exactly the first cause that holds in   *)
(* the order wall, self, obstacle, food: "wall" whenever the head is out   *)
(* of bounds, "self" exactly when the head is in bounds and repeats a      *)
(* later body cell, "obstacle" exactly when neither holds and the head is  *)
(* on an obstacle, "food" exactly when none of the three holds and an      *)
(* uncollected food of the list lies under the head, and None exactly when *)
(* none of the four holds.                                                 *)
(***************************************************************************)
C31_FirstCauseInOrder ==
    ret.op = "get_collision_type" =>
        LET h == body[1]
            W == h[1] < 0 \/ h[1] >= GridW \/ h[2] < 0 \/ h[2] >= GridH
            S == \E i \in 2 .. Len(body) : body[i] = h
            O == h \in ret.arg[2]
            F == \E i \in 1 .. Len(ret.arg[1]) :
                    ret.arg[1][i].position = h /\ ~ret.arg[1][i].collected
        IN  /\ ret.result = "wall" <=> W
            /\ ret.result = "self" <=> ~W /\ S
            /\ ret.result = "obstacle" <=> ~W /\ ~S /\ O
            /\ ret.result = "food" <=> ~W /\ ~S /\ ~O /\ F
            /\ ret.result = "None" <=> ~W /\ ~S /\ ~O /\ ~F

\* a head outside the grid that also repeats a body cell, lies on an
\* obstacle and on an uncollected food: the answer is "wall"
C31_Witness ==
    /\ ret.op = "get_collision_type"
    /\ ret.result = "wall"
    /\ body = <<(<<-1, 0>>), <<0, 0>>, <<-1, 0>>>>
    /\ <<-1, 0>> \in ret.arg[2]
    /\ Len(ret.arg[1]) = 1 /\ ret.arg[1][1].position = <<-1, 0>> /\ ~ret.arg[1][1].collected

(***************************************************************************)
(* C32: is_position_safe_for_snake changes neither the snake nor the grid, *)
(* and for the cell one step ahead of the head it returns True exactly     *)
(* when a Snake.move without wrap-around in that direction would succeed.  *)
(***************************************************************************)
C32_SafeExactlyWhenMoveSucceeds ==
    [][ret'.op = "is_position_safe_for_snake" =>
          /\ UNCHANGED <<snakeVars, occupied>>
          /\ ret'.arg = PosAdd(body[1], DirVec(next_direction))
          /\ ret'.result = (MoveOutcome(body, occupied, next_direction, FALSE) = "ok")]_vars

(***************************************************************************)
(* C33: once the time elapsed since the start of a speed transition        *)
(* reaches transition_duration, the next update sets current_speed to      *)
(* target_speed and ends the transition, so that a target that stops       *)
(* changing is reached as time advances.  Stated for an update that leaves *)
(* the target as it is: when the transition in flight began at least       *)
(* transition_duration before the update, the update ends with             *)
(* current_speed equal to target_speed and no transition in flight.        *)
(***************************************************************************)
C33_TransitionEndsAfterDuration ==
    [][/\ ret'.op = "speed_update"
       /\ speed_state.is_transitioning
       /\ speed_state'.target_speed = speed_state.target_speed
       /\ wall_time' - speed_state.transition_start_time >= TRANSITION_DURATION
       => /\ speed_state'.current_speed = speed_state'.target_speed
          /\ ~speed_state'.is_transitioning]_vars

(***************************************************************************)
(* C34: an update of the food manager spawns at most one food, and only    *)
(* when the spawn timer, advanced by the update, has reached               *)
(* spawn_interval and fewer than max_food uncollected foods are active; a  *)
(* spawn resets the spawn timer to zero.                                   *)
(***************************************************************************)
C34_UpdateSpawnsAtMostOne ==
    [][ret'.op = "food_update" =>
          LET before == Cardinality({i \in 1 .. Len(active_food) :
                                        ~active_food[i].collected})
              after  == Cardinality({i \in 1 .. Len(active_food') :
                                        ~active_food'[i].collected})
          IN  /\ after \in {before, before + 1}
              /\ after = before + 1 =>
                    /\ food_timers.food_spawn_timer + ret'.arg >= SPAWN_INTERVAL
                    /\ before < max_food
                    /\ food_timers'.food_spawn_timer = 0]_vars

\* an update has spawned a second food and reset the timer
C34_Witness ==
    /\ ret.op = "food_update"
    /\ food_timers.food_spawn_timer = 0
    /\ Len(active_food) = 2
    /\ \A i \in 1 .. 2 : ~active_food[i].collected

(***************************************************************************)
(* C35: no two live entities share a cell: in every reachable state the    *)
(* uncollected foods lie on pairwise distinct cells and none of them lies  *)
(* on a cell of the snake's body.                                          *)
(***************************************************************************)
C35_NoSharedCell ==
    LET live == {i \in 1 .. Len(active_food) : ~active_food[i].collected}
    IN  /\ \A i, j \in live : i # j => active_food[i].position # active_food[j].position
        /\ \A i \in live : \A k \in 1 .. Len(body) : active_food[i].position # body[k]

(***************************************************************************)
(* C38: after reset_game, from any reachable state, the game is PLAYING    *)
(* with score 0, level 1 and food_eaten 0, the snake is the initial snake  *)
(* of three cells at the grid centre facing right, no power-up is active,  *)
(* and the active list holds exactly one food, uncollected and of kind     *)
(* NORMAL: no food of the previous game remains.                           *)
(***************************************************************************)
C38_ResetStartsAfresh ==
    ret.op = "reset_game" =>
        /\ game_state.status = "PLAYING"
        /\ game_state.score = 0 /\ game_state.level = 1 /\ game_state.food_eaten = 0
        /\ body = <<(<<GridW \div 2, GridH \div 2>>), <<GridW \div 2 - 1, GridH \div 2>>,
                    <<GridW \div 2 - 2, GridH \div 2>>>>
        /\ direction = "RIGHT" /\ next_direction = "RIGHT"
        /\ get_active_power_ups = {}
        /\ Len(active_food) = 1
        /\ ~active_food[1].collected /\ active_food[1].food_type = "NORMAL"

(***************************************************************************)
(* C36: while the game is PAUSED, GameLogic.update does not move the       *)
(* snake, does not collect or spawn food, does not change the score and    *)
(* does not advance the game time.                                         *)
(***************************************************************************)
C36_PausedUpdateChangesNothing ==
    [][ret'.op = "logic_update" /\ game_state.status = "PAUSED"
       => /\ UNCHANGED <<body, direction, active_food>>
          /\ game_state'.score = game_state.score
          /\ game_state'.game_time = game_state.game_time]_vars

(***************************************************************************)
(* C37: a move whose next head cell holds an uncollected food succeeds:    *)
(* the food is not treated as an obstacle (and the collection step of the  *)
(* tick then collects it and raises food_eaten).                           *)
(***************************************************************************)
C37_MoveOntoFoodSucceeds ==
    [][/\ ret'.op = "move"
       /\ \E i \in 1 .. Len(active_food) :
             /\ ~active_food[i].collected
             /\ active_food[i].position = PosAdd(body[1], DirVec(next_direction))
       => ret'.result = TRUE]_vars

C40_NoReversalInOneMove ==
    [][ret'.op = "move" =>
          /\ <<direction, direction'>> \notin
                {<<"UP", "DOWN">>, <<"DOWN", "UP">>, <<"LEFT", "RIGHT">>, <<"RIGHT", "LEFT">>}
          /\ ret'.result = TRUE => body'[1] # body[2]]_vars

\* the snake has turned: its last move went up, the one before sideways
C40_Witness ==
    /\ ret.op = "move"
    /\ ret.result = TRUE
    /\ direction = "UP"
    /\ body[2][2] = body[3][2]
    /\ body[1][1] = body[2][1]

====
